---- MODULE Spec2Model ----
(***************************************************************************)
(* go-neaktor-api: the client (Neaktor), its model cache, the Model's      *)
(* custom-field and assignee caches, the task listings and their paging.   *)
(* Wire strings that the code compares with strings.EqualFold are          *)
(* sequences of one-character strings, so that case folding is computed.   *)
(***************************************************************************)
EXTENDS Integers, Sequences, FiniteSets, TLC

VARIABLES
    now,            \* the wall clock (time.Now()), in minutes
    takes,          \* units taken from Neaktor.apiLimiter so far
    token,          \* Neaktor.token
    modelCacheLock, \* Neaktor.modelCacheLock: the thread holding it, or NoThread
    modelCacheMap,  \* Neaktor.modelCacheMap: title -> ModelCache
    nextInst,       \* the number of Models constructed so far (NewModel)
    heap,           \* inst -> the Model's two caches and their locks, once used
    pc,             \* each thread's position: "idle" before its call, "done" after it
    call            \* each thread's call, with what it has done so far

vars == <<now, takes, token, modelCacheLock, modelCacheMap, nextInst, heap, pc, call>>

----------------------------------------------------------------------------
\* Bounds of the model.

MaxItems == 2
MaxElems == 2
MaxTotal == 101

\* Program constants.

ModelCacheTime == 30
PageLimit == 50

Threads == {"t1", "t2"}
NoThread == "-"

----------------------------------------------------------------------------
\* Strings and strings.EqualFold.

UpperChars == <<"A","B","C","D","E","F","G","H","I","J","K","L","M",
                "N","O","P","Q","R","S","T","U","V","W","X","Y","Z">>
LowerChars == <<"a","b","c","d","e","f","g","h","i","j","k","l","m",
                "n","o","p","q","r","s","t","u","v","w","x","y","z">>

ToLower(c) ==
    IF \E i \in 1..26 : UpperChars[i] = c
    THEN LowerChars[CHOOSE i \in 1..26 : UpperChars[i] = c]
    ELSE c

\* A comparison that does not fold case.
ExactEqual(a, b) == a = b

EqualFold(a, b) ==
    /\ Len(a) = Len(b)
    /\ \A i \in 1..Len(a) : ToLower(a[i]) = ToLower(b[i])

SeqsUpTo(S, n) == UNION {[1..k -> S] : k \in 0..n}

----------------------------------------------------------------------------
\* Errors. A nil error is NilErr; fmt.Errorf("%w: %s", e, m) is Wrap(e, m).

NilErr == [is |-> "nil", msg |-> <<>>]
Bare(sentinel) == [is |-> sentinel, msg |-> <<>>]
Wrap(sentinel, message) == [is |-> sentinel, msg |-> <<message>>]

ErrCode403 == <<"4","0","3">>
ErrCode404 == <<"4","0","4">>
ErrCode422 == <<"4","2","2">>
ErrCode429 == <<"4","2","9"," ","T","O","O","_","M","A","N","Y","_","R","E","Q","U","E","S","T","S">>
ErrCode500 == <<"5","0","0"," ","I","N","T","E","R","N","A","L","_","S","E","R","V","E","R","_","E","R","R","O","R">>

\* A classifier that takes the empty code for no error.
parseErrorCodeOrNil(code, message) ==
    IF Len(code) = 0 THEN NilErr ELSE Bare("ErrCodeUnknown")

\* A classifier that knows no code.
parseErrorCodeUnknown(code, message) == Bare("ErrCodeUnknown")

parseErrorCode(code, message) ==
    IF EqualFold(code, ErrCode403) THEN Wrap("ErrCode403", message)
    ELSE IF EqualFold(code, ErrCode404) THEN Wrap("ErrCode404", message)
    ELSE IF EqualFold(code, ErrCode429) THEN Wrap("ErrCode429", message)
    ELSE IF EqualFold(code, ErrCode422) THEN Wrap("ErrCode422", message)
    ELSE IF EqualFold(code, ErrCode500) THEN Wrap("ErrCode500", message)
    ELSE Bare("ErrCodeUnknown")

----------------------------------------------------------------------------
\* Go maps: a map is a function whose DOMAIN is the set of present keys.

EmptyMap == [k \in {} |-> 0]
MapPut(m, k, v) == [x \in (DOMAIN m) \cup {k} |-> IF x = k THEN v ELSE m[x]]
\* delete(m, k) left out: the map keeps the key.
MapKeep(m, k) == m

MapDelete(m, k) == [x \in (DOMAIN m) \ {k} |-> m[x]]


----------------------------------------------------------------------------
\* What the remote service may answer.

Titles == {"A", "B"}
WireCodes == {<<>>, ErrCode404}
HttpStatuses == {200, 500}

StatusNew == [Id |-> <<"s","1">>, Name |-> <<"N","e","w">>, Closed |-> FALSE, Type |-> "open"]
StatusDone == [Id |-> <<"s","2">>, Name |-> <<"D","o","n","e">>, Closed |-> TRUE, Type |-> "closed"]
FieldEmail == [Id |-> <<"f","1">>, Name |-> <<"E","m","a","i","l">>, State |-> "active"]
FieldStart == [Id |-> <<"s","t","a","r","t">>, Name |-> <<"S","t","a","r","t">>, State |-> "active"]

\* The items of GET /taskmodels: a model named A and one named B; a listing may repeat one.
ListingItems ==
    { [Id |-> "m1", Name |-> "A", Statuses |-> <<StatusNew, StatusDone>>, Fields |-> <<FieldEmail, FieldStart>>],
      [Id |-> "m2", Name |-> "B", Statuses |-> <<StatusNew>>, Fields |-> <<FieldEmail>>] }

Listings == SeqsUpTo(ListingItems, MaxItems)

\* A response: a transport error (no response at all), or a status with a body that
\* does not decode, or a status with a decoded body. A decoded object body is
\* {code, message, data}; a decoded array body is data, whose elements carry a code.
TransportFailure == [fail |-> TRUE]
Undecodable(status) == [fail |-> FALSE, status |-> status, decodable |-> FALSE]
Decoded(status, code, data) ==
    [fail |-> FALSE, status |-> status, decodable |-> TRUE, code |-> code, message |-> "msg", data |-> data]

TaskModelResponses ==
    {TransportFailure}
    \cup {Undecodable(s) : s \in HttpStatuses}
    \cup {Decoded(s, c, d) : s \in HttpStatuses, c \in WireCodes, d \in Listings}

\* GET /customfields/{id}: an array of {code, options: {availableValues: [{id, value}]}}.
\* An element that carries a code is an error envelope: it has nothing else.
Option(id, value) == [Id |-> id, Value |-> value]
OptionLists == {<<Option("o1", "blue"), Option("o2", "red")>>}
CustomFieldElems ==
    [Code : {<<>>}, AvailableValues : OptionLists]
    \cup {[Code |-> ErrCode404, AvailableValues |-> <<>>]}

CustomFieldResponses ==
    {TransportFailure}
    \cup {Undecodable(s) : s \in HttpStatuses}
    \cup {Decoded(s, <<>>, d) : s \in HttpStatuses, d \in SeqsUpTo(CustomFieldElems, MaxElems)}

\* GET /taskmodels/{modelId}/{statusId}/routings: an array of {code, to, assignees}.
Assignee(id, name) == [Id |-> id, Name |-> name, Type |-> "USER"]
AssigneeLists == {<<Assignee(1, "ann"), Assignee(2, "bob")>>}
RoutingElems ==
    [Code : {<<>>}, To : {StatusNew.Id, StatusDone.Id}, Assignees : AssigneeLists]
    \cup {[Code |-> ErrCode404, To |-> <<>>, Assignees |-> <<>>]}

RoutingResponses ==
    {TransportFailure}
    \cup {Undecodable(s) : s \in HttpStatuses}
    \cup {Decoded(s, <<>>, d) : s \in HttpStatuses, d \in SeqsUpTo(RoutingElems, MaxElems)}

\* What the callers ask for: a value, an option id and a name that the service
\* lists, and one of each that it never lists.
AskedFields == {FieldEmail}
AskedValues == {"red", "green"}
AskedOptionIds == {"o2", "o9"}
AskedStatuses == {StatusNew, StatusDone}
AskedNames == {"ann", "zed"}

----------------------------------------------------------------------------
\* Model (neaktor_model.go) and the client's model cache (part_001).

StatusesById(list) ==
    [id \in {list[i].Id : i \in 1..Len(list)} |->
        list[CHOOSE i \in 1..Len(list) : list[i].Id = id /\ \A j \in (i+1)..Len(list) : list[j].Id # id]]

FieldsById(list) ==
    [id \in {list[i].Id : i \in 1..Len(list)} |->
        list[CHOOSE i \in 1..Len(list) : list[i].Id = id /\ \A j \in (i+1)..Len(list) : list[j].Id # id]]

\* A constructor that builds every Model in the place of the first one.
NewModelInPlace(inst, id, statuses, fields) ==
    [inst |-> 1, id |-> id, statuses |-> statuses, fields |-> fields]

\* A *Model is its identity inst (the allocation) with the fields no method assigns;
\* heap[inst] holds its two caches and their locks.
NewModel(inst, id, statuses, fields) ==
    [inst |-> inst, id |-> id, statuses |-> statuses, fields |-> fields]

NilModel == [inst |-> 0, id |-> "", statuses |-> EmptyMap, fields |-> EmptyMap]

\* The caches and locks of a Model as NewModel leaves them; heap holds only the
\* Models that differ from this.
FreshCaches ==
    [ modelCustomFieldCacheLock |-> NoThread, modelCustomFieldCacheMap |-> EmptyMap,
      modelAssigneeCacheLock |-> NoThread, modelAssigneeCacheMap |-> EmptyMap ]

CachesOf(m) == IF m.inst \in DOMAIN heap THEN heap[m.inst] ELSE FreshCaches
HeapPut(m, caches) ==
    [x \in IF caches = FreshCaches THEN (DOMAIN heap) \ {m.inst} ELSE (DOMAIN heap) \cup {m.inst} |->
        IF x = m.inst THEN caches ELSE heap[x]]

ModelCache(lastUpdatedAt, model) == [lastUpdatedAt |-> lastUpdatedAt, model |-> model]
CustomFieldOption(id, value) == [id |-> id, value |-> value]
ModelCustomFieldCache(lastUpdatedAt, customFieldOptions) ==
    [lastUpdatedAt |-> lastUpdatedAt, customFieldOptions |-> customFieldOptions]
ModelAssignee(id, name, typeOf) == [id |-> id, name |-> name, typeOf |-> typeOf]
ModelAssigneeCache(lastUpdatedAt, modelAssignees) ==
    [lastUpdatedAt |-> lastUpdatedAt, modelAssignees |-> modelAssignees]

NilAssignee == ModelAssignee(0, "", "")

\* The instants the model tells apart: an entry written at one of them is, at a
\* later one, a minute short of the TTL old, exactly the TTL old, or older. Time passes between calls and while a call
\* waits for its mutex: a call that gets the mutex finds the clock at one of the
\* instants not before now, and its later steps take less than a minute.
Instants == {0, ModelCacheTime, 2 * ModelCacheTime - 1}
Later == {at \in Instants : at >= now}

\* Two deviations from the strict Before: one a minute early, one that lets an
\* entry exactly ModelCacheTime old pass.
IsFreshEarly(at, lastUpdatedAt) == at + 1 < lastUpdatedAt + ModelCacheTime
IsFreshInclusive(at, lastUpdatedAt) == at <= lastUpdatedAt + ModelCacheTime

\* time.Now().Before(lastUpdatedAt.Add(ModelCacheTime)), time.Now() being at
IsFresh(at, lastUpdatedAt) == at < lastUpdatedAt + ModelCacheTime

\* What a call keeps of the response it got: the features the error paths depend on
\* (coded: the body, or an element of an array body, carries a non-empty code) and
\* the cache keys the body lists.
Digest(resp, coded, keys) ==
    IF resp.fail THEN [fail |-> TRUE, over500 |-> FALSE, decodable |-> FALSE, coded |-> FALSE, keys |-> {}]
    ELSE IF ~resp.decodable
    THEN [fail |-> FALSE, over500 |-> resp.status >= 500, decodable |-> FALSE, coded |-> FALSE, keys |-> {}]
    ELSE [fail |-> FALSE, over500 |-> resp.status >= 500, decodable |-> TRUE, coded |-> coded, keys |-> keys]

NoDigest == [fail |-> FALSE, over500 |-> FALSE, decodable |-> FALSE, coded |-> FALSE, keys |-> {}]

Request(method, path, auth) == [method |-> method, path |-> path, auth |-> auth]

\* A call. recv: the Model it is called on; arg: the cache key and what is looked up
\* under it; prior: the threads whose call had returned when this one was entered;
\* reqs: the HTTP requests issued; takes: its Take()s; checkAt: when it first read
\* the cache and had: the entry that read found, if any; fetchAt: when it handled
\* the response (rx); src: where the result was read ("cache": the first read,
\* "refresh": the read after the refresh) and stamp: that entry's lastUpdatedAt;
\* left: the entry under its key when it returned, if any; page, maxPages: the page
\* loop's variables; total: the number of tasks the service has for the listing;
\* resp: the response a mutation, GetTaskById or RefreshToken got, if any; caller:
\* the call that made this one and waits for it, if any; subs: the calls this one
\* has made, in order, as they returned. A RefreshToken keeps in left the token it
\* goes on to store.
NewCall(op, recv, key, want, ret) ==
    [ op |-> op, recv |-> recv, arg |-> [key |-> key, want |-> want], prior |-> {},
      reqs |-> <<>>, takes |-> 0, checkAt |-> 0, had |-> <<>>,
      fetchAt |-> 0, rx |-> NoDigest, src |-> "none", stamp |-> 0, left |-> <<>>,
      page |-> 0, maxPages |-> 0, total |-> 0, resp |-> <<>>, caller |-> <<>>, subs |-> <<>>,
      ret |-> ret, err |-> NilErr ]

NoCall == NewCall("none", NilModel, "", "", "")

\* The entry of a cache under a key, if any.
EntryOf(cacheMap, key) == IF key \in DOMAIN cacheMap THEN <<cacheMap[key]>> ELSE <<>>

\* A Lock() that never waits: no mutual exclusion.
NoLock(lock) == TRUE

\* sync.Mutex.Lock() returns when the mutex is free.
TryLock(lock) == lock = NoThread

\* The calls that work on one cache: GetCustomFieldOptionId and GetCustomFieldValue
\* share the custom-field cache.
Family(op) == IF op \in {"GetCustomFieldOptionId", "GetCustomFieldValue"} THEN "customfield" ELSE op

\* Thread t, which has not called yet, enters its call. The threads are
\* interchangeable: t1 names the one that calls first; and the second call is one on
\* the cache of the first, calls on different caches having only the clock in common.
Enter(t, c, first) ==
    /\ pc[t] = "idle"
    /\ t # "t1" => pc["t1"] # "idle" /\ Family(call["t1"].op) = Family(c.op)
    /\ call' = [call EXCEPT ![t] = [c EXCEPT !.prior = {u \in Threads : pc[u] = "done"}]]
    /\ pc' = [pc EXCEPT ![t] = first]

\* ---- Neaktor.GetModelByTitle (part_001:340-458)

\* GetModelByTitle is entered (part_001:340).
GetModelByTitleCall(t, title) ==
    /\ Enter(t, NewCall("GetModelByTitle", NilModel, title, "", NilModel), "gm_lock")
    /\ UNCHANGED <<now, takes, token, modelCacheLock, modelCacheMap, nextInst, heap>>

\* n.modelCacheLock.Lock(), whose deferred Unlock runs at every return, and
\* "cache first" at time at (part_001:379-390).
GetModelByTitleCheck(t, at) ==
    LET title == call[t].arg.key
        present == title \in DOMAIN modelCacheMap
        c == [call[t] EXCEPT !.checkAt = at, !.had = EntryOf(modelCacheMap, title)]
    IN
    /\ pc[t] = "gm_lock"
    /\ TryLock(modelCacheLock)
    /\ now' = at
    /\ IF present /\ IsFresh(at, modelCacheMap[title].lastUpdatedAt)
       THEN /\ call' = [call EXCEPT ![t] = [c EXCEPT !.ret = modelCacheMap[title].model,
                                                     !.src = "cache",
                                                     !.stamp = modelCacheMap[title].lastUpdatedAt,
                                                     !.left = EntryOf(modelCacheMap, title)]]
            /\ pc' = [pc EXCEPT ![t] = "done"]
            /\ UNCHANGED <<modelCacheLock, modelCacheMap>>
       ELSE /\ modelCacheMap' = IF present THEN MapDelete(modelCacheMap, title) ELSE modelCacheMap
            /\ modelCacheLock' = t
            /\ call' = [call EXCEPT ![t] = c]
            /\ pc' = [pc EXCEPT ![t] = "gm_take"]
    /\ UNCHANGED <<takes, token, nextInst, heap>>

\* n.apiLimiter.Take() (part_001:394).
GetModelByTitleTake(t) ==
    /\ pc[t] = "gm_take"
    /\ takes' = takes + 1
    /\ call' = [call EXCEPT ![t].takes = @ + 1]
    /\ pc' = [pc EXCEPT ![t] = "gm_fetch"]
    /\ UNCHANGED <<now, token, modelCacheLock, modelCacheMap, nextInst, heap>>

\* Two deviations from the loop below: one that caches the last item only, as a
\* loop that overwrites a single slot would, and one that caches nothing.
StoreLast(data, i, cacheMap, inst, model, at) ==
    IF Len(data) = 0 THEN [cacheMap |-> cacheMap, inst |-> inst, model |-> model]
    ELSE LET item == data[Len(data)]
             m == NewModel(inst + 1, item.Id, StatusesById(item.Statuses), FieldsById(item.Fields))
         IN [cacheMap |-> MapPut(cacheMap, item.Name, ModelCache(at, m)), inst |-> inst + 1, model |-> m]

StoreNothing(data, i, cacheMap, inst, model, at) ==
    [cacheMap |-> cacheMap, inst |-> inst, model |-> model]

\* A loop that leaves alone the names that have an entry: only the missing are cached.
RECURSIVE StoreMissing(_, _, _, _, _, _)
StoreMissing(data, i, cacheMap, inst, model, at) ==
    IF i > Len(data) THEN [cacheMap |-> cacheMap, inst |-> inst, model |-> model]
    ELSE LET item == data[i]
             m == NewModel(inst + 1, item.Id, StatusesById(item.Statuses), FieldsById(item.Fields))
         IN IF item.Name \in DOMAIN cacheMap
            THEN StoreMissing(data, i + 1, cacheMap, inst, cacheMap[item.Name].model, at)
            ELSE StoreMissing(data, i + 1, MapPut(cacheMap, item.Name, ModelCache(at, m)), inst + 1, m, at)

\* The loop of part_001:424-449: one NewModel and one cache write per item, in order.
\* model is the function's result variable, assigned in the loop.
RECURSIVE StoreListing(_, _, _, _, _, _)
StoreListing(data, i, cacheMap, inst, model, at) ==
    IF i > Len(data) THEN [cacheMap |-> cacheMap, inst |-> inst, model |-> model]
    ELSE LET item == data[i]
             m == NewModel(inst + 1, item.Id, StatusesById(item.Statuses), FieldsById(item.Fields))
         IN StoreListing(data, i + 1, MapPut(cacheMap, item.Name, ModelCache(at, m)), inst + 1, m, at)

\* n.token is a string: a word for the address of its bytes and a word for their
\* number. The n bytes at the address of s: a prefix of s, or s and what follows it
\* in memory, bytes that are not known ("?").
RECURSIVE Unknown(_)
Unknown(n) == IF n <= 0 THEN "" ELSE "?" \o Unknown(n - 1)
Bytes(s, n) == IF n <= Len(s) THEN SubSeq(s, 1, n) ELSE s \o Unknown(n - Len(s))

\* What a read of n.token by an operation can give (part_001:399). No mutex guards
\* the token: while a RefreshToken is at its assignment (part_001:335), a data
\* race, the read gives the token held, the one being stored, or the address
\* of one with the length of the other.
TokenRead ==
    {token}
    \cup UNION { {call[u].left[1], Bytes(call[u].left[1], Len(token)), Bytes(token, Len(call[u].left[1]))} :
                    u \in {v \in Threads : pc[v] = "rt_store"} }

\* requests.Get(".../v1/taskmodels") with the Authorization header, and the rest of
\* GetModelByTitle on its response (part_001:396-458). The other operations read the
\* token as this one does; they are modelled where no RefreshToken runs beside them.
GetModelByTitleFetch(t, resp) ==
    \E auth \in TokenRead :
    LET title == call[t].arg.key
        at == now
        names == IF ~resp.fail /\ resp.decodable THEN {resp.data[i].Name : i \in 1..Len(resp.data)} ELSE {}
        coded == ~resp.fail /\ resp.decodable /\ Len(resp.code) > 0
        c == [call[t] EXCEPT !.reqs = Append(@, Request("GET", <<"taskmodels">>, auth)),
                             !.fetchAt = at, !.rx = Digest(resp, coded, names),
                             !.left = EntryOf(modelCacheMap, title)]
        stored == StoreListing(resp.data, 1, modelCacheMap, nextInst, NilModel, at)
    IN
    /\ pc[t] = "gm_fetch"
    /\ pc' = [pc EXCEPT ![t] = "done"]
    /\ modelCacheLock' = NoThread
    /\ IF resp.fail
       THEN /\ call' = [call EXCEPT ![t] = [c EXCEPT !.err = Bare("TransportError")]]
            /\ UNCHANGED <<modelCacheMap, nextInst>>
       ELSE IF resp.status >= 500
       THEN /\ call' = [call EXCEPT ![t] = [c EXCEPT !.err = Bare("ServiceUnavailable")]]
            /\ UNCHANGED <<modelCacheMap, nextInst>>
       ELSE IF ~resp.decodable
       THEN /\ call' = [call EXCEPT ![t] = [c EXCEPT !.err = Bare("UnmarshalError")]]
            /\ UNCHANGED <<modelCacheMap, nextInst>>
       ELSE IF Len(resp.code) > 0
       THEN /\ call' = [call EXCEPT ![t] = [c EXCEPT !.err = parseErrorCode(resp.code, resp.message)]]
            /\ UNCHANGED <<modelCacheMap, nextInst>>
       ELSE /\ modelCacheMap' = stored.cacheMap
            /\ nextInst' = stored.inst
            /\ IF title \in DOMAIN stored.cacheMap
               THEN call' = [call EXCEPT ![t] = [c EXCEPT !.ret = stored.cacheMap[title].model,
                                                         !.src = "refresh",
                                                         !.stamp = stored.cacheMap[title].lastUpdatedAt,
                                                         !.left = EntryOf(stored.cacheMap, title)]]
               ELSE call' = [call EXCEPT ![t] = [c EXCEPT !.ret = stored.model,
                                                         !.err = Bare("ErrModelNotFound")]]
    /\ UNCHANGED <<now, takes, token, heap>>

----------------------------------------------------------------------------
\* The Models the client's cache holds: those a caller can have at hand.
Models == {modelCacheMap[k].model : k \in DOMAIN modelCacheMap}

\* The first element of a list that satisfies a test, if any: what a range loop
\* that returns on the first match finds.
FirstIndex(hits) == CHOOSE i \in hits : \A j \in hits : i <= j

OptionByValue(options, value) ==
    LET hits == {i \in 1..Len(options) : options[i].value = value}
    IN IF hits = {} THEN <<>> ELSE <<options[FirstIndex(hits)]>>

\* A lookup that holds the option id asked for against the values.
OptionByIdAmongValues(options, optionId) ==
    LET hits == {i \in 1..Len(options) : options[i].value = optionId}
    IN IF hits = {} THEN <<>> ELSE <<options[FirstIndex(hits)]>>

OptionById(options, optionId) ==
    LET hits == {i \in 1..Len(options) : options[i].id = optionId}
    IN IF hits = {} THEN <<>> ELSE <<options[FirstIndex(hits)]>>

AssigneeByName(assignees, name) ==
    LET hits == {i \in 1..Len(assignees) : assignees[i].name = name}
    IN IF hits = {} THEN <<>> ELSE <<assignees[FirstIndex(hits)]>>

\* A loop that keeps what the first element of the response wrote.
StoreCustomFieldsFirst(data, i, cacheMap, fieldId, at) ==
    IF Len(data) = 0 THEN cacheMap
    ELSE LET values == data[1].AvailableValues
             customFieldOptions == [j \in 1..Len(values) |-> CustomFieldOption(values[j].Id, values[j].Value)]
         IN MapPut(cacheMap, fieldId, ModelCustomFieldCache(at, customFieldOptions))

\* The loops of neaktor_model.go:1000-1014 and 1085-1099: every element of the
\* response array is written under the requested field id.
RECURSIVE StoreCustomFields(_, _, _, _, _)
StoreCustomFields(data, i, cacheMap, fieldId, at) ==
    IF i > Len(data) THEN cacheMap
    ELSE LET values == data[i].AvailableValues
             customFieldOptions == [j \in 1..Len(values) |-> CustomFieldOption(values[j].Id, values[j].Value)]
         IN StoreCustomFields(data, i + 1,
                MapPut(cacheMap, fieldId, ModelCustomFieldCache(at, customFieldOptions)), fieldId, at)

\* A loop that writes the first routing of the response only.
StoreFirstRouting(data, i, cacheMap, at) ==
    IF Len(data) = 0 THEN cacheMap
    ELSE LET items == data[1].Assignees
             modelAssignees == [j \in 1..Len(items) |-> ModelAssignee(items[j].Id, items[j].Name, items[j].Type)]
         IN MapPut(cacheMap, data[1].To, ModelAssigneeCache(at, modelAssignees))

\* The loop of neaktor_model.go:1166-1181: every routing is written under its target.
RECURSIVE StoreRoutings(_, _, _, _)
StoreRoutings(data, i, cacheMap, at) ==
    IF i > Len(data) THEN cacheMap
    ELSE LET items == data[i].Assignees
             modelAssignees == [j \in 1..Len(items) |-> ModelAssignee(items[j].Id, items[j].Name, items[j].Type)]
         IN StoreRoutings(data, i + 1,
                MapPut(cacheMap, data[i].To, ModelAssigneeCache(at, modelAssignees)), at)

ArrayCoded(resp) ==
    ~resp.fail /\ resp.decodable /\ \E i \in 1..Len(resp.data) : Len(resp.data[i].Code) > 0

\* ---- Model.GetCustomFieldOptionId (neaktor_model.go:944-1027)

GetCustomFieldOptionIdCall(t, m, field, value) ==
    /\ Enter(t, NewCall("GetCustomFieldOptionId", m, field.Id, value, ""), "cfo_lock")
    /\ UNCHANGED <<now, takes, token, modelCacheLock, modelCacheMap, nextInst, heap>>

\* m.modelCustomFieldCacheLock.Lock() and "cache first" (neaktor_model.go:962-977).
GetCustomFieldOptionIdCheck(t, at) ==
    LET m == call[t].recv
        caches == CachesOf(m)
        key == call[t].arg.key
        had == EntryOf(caches.modelCustomFieldCacheMap, key)
        found == IF Len(had) > 0 /\ IsFresh(at, had[1].lastUpdatedAt)
                 THEN OptionByValue(had[1].customFieldOptions, call[t].arg.want) ELSE <<>>
        c == [call[t] EXCEPT !.checkAt = at, !.had = had]
    IN
    /\ pc[t] = "cfo_lock"
    /\ TryLock(caches.modelCustomFieldCacheLock)
    /\ now' = at
    /\ IF Len(found) > 0
       THEN /\ call' = [call EXCEPT ![t] = [c EXCEPT !.ret = found[1].id, !.src = "cache",
                                                     !.stamp = had[1].lastUpdatedAt, !.left = had]]
            /\ pc' = [pc EXCEPT ![t] = "done"]
            /\ UNCHANGED heap
       ELSE /\ heap' = HeapPut(m, [caches EXCEPT
                           !.modelCustomFieldCacheLock = t,
                           !.modelCustomFieldCacheMap = IF Len(had) > 0 THEN MapDelete(@, key) ELSE @])
            /\ call' = [call EXCEPT ![t] = c]
            /\ pc' = [pc EXCEPT ![t] = "cfo_fetch"]
    /\ UNCHANGED <<takes, token, modelCacheLock, modelCacheMap, nextInst>>

\* GetJson(".../v1/customfields/{field id}") and the rest of the function on its
\* response (neaktor_model.go:981-1026).
GetCustomFieldOptionIdFetch(t, resp) ==
    LET m == call[t].recv
        at == now
        caches == CachesOf(m)
        key == call[t].arg.key
        keys == IF ~resp.fail /\ resp.decodable /\ Len(resp.data) > 0 THEN {key} ELSE {}
        c == [call[t] EXCEPT !.reqs = Append(@, Request("GET", <<"customfields", key>>, token)),
                             !.fetchAt = at, !.rx = Digest(resp, ArrayCoded(resp), keys)]
        stored == StoreCustomFields(resp.data, 1, caches.modelCustomFieldCacheMap, key, at)
        entry == EntryOf(stored, key)
        found == IF Len(entry) > 0 THEN OptionByValue(entry[1].customFieldOptions, call[t].arg.want) ELSE <<>>
    IN
    /\ pc[t] = "cfo_fetch"
    /\ pc' = [pc EXCEPT ![t] = "done"]
    /\ IF resp.fail \/ ~resp.decodable
       THEN /\ call' = [call EXCEPT ![t] = [c EXCEPT
                           !.err = IF resp.fail THEN Bare("TransportError") ELSE Bare("UnmarshalError"),
                           !.left = EntryOf(caches.modelCustomFieldCacheMap, key)]]
            /\ heap' = HeapPut(m, [caches EXCEPT !.modelCustomFieldCacheLock = NoThread])
       ELSE /\ heap' = HeapPut(m, [caches EXCEPT !.modelCustomFieldCacheLock = NoThread,
                                                 !.modelCustomFieldCacheMap = stored])
            /\ IF Len(found) > 0
               THEN call' = [call EXCEPT ![t] = [c EXCEPT !.ret = found[1].id, !.src = "refresh",
                                                         !.stamp = entry[1].lastUpdatedAt, !.left = entry]]
               ELSE call' = [call EXCEPT ![t] = [c EXCEPT !.err = Bare("ErrModelCustomFieldOptionNotFound"),
                                                         !.left = entry]]
    /\ UNCHANGED <<now, takes, token, modelCacheLock, modelCacheMap, nextInst>>

\* ---- Model.GetCustomFieldValue (neaktor_model.go:1029-1112)

GetCustomFieldValueCall(t, m, field, optionId) ==
    /\ Enter(t, NewCall("GetCustomFieldValue", m, field.Id, optionId, ""), "cfv_lock")
    /\ UNCHANGED <<now, takes, token, modelCacheLock, modelCacheMap, nextInst, heap>>

\* m.modelCustomFieldCacheLock.Lock() and "cache first" (neaktor_model.go:1047-1062).
GetCustomFieldValueCheck(t, at) ==
    LET m == call[t].recv
        caches == CachesOf(m)
        key == call[t].arg.key
        had == EntryOf(caches.modelCustomFieldCacheMap, key)
        found == IF Len(had) > 0 /\ IsFresh(at, had[1].lastUpdatedAt)
                 THEN OptionById(had[1].customFieldOptions, call[t].arg.want) ELSE <<>>
        c == [call[t] EXCEPT !.checkAt = at, !.had = had]
    IN
    /\ pc[t] = "cfv_lock"
    /\ TryLock(caches.modelCustomFieldCacheLock)
    /\ now' = at
    /\ IF Len(found) > 0
       THEN /\ call' = [call EXCEPT ![t] = [c EXCEPT !.ret = found[1].value, !.src = "cache",
                                                     !.stamp = had[1].lastUpdatedAt, !.left = had]]
            /\ pc' = [pc EXCEPT ![t] = "done"]
            /\ UNCHANGED heap
       ELSE /\ heap' = HeapPut(m, [caches EXCEPT
                           !.modelCustomFieldCacheLock = t,
                           !.modelCustomFieldCacheMap = IF Len(had) > 0 THEN MapDelete(@, key) ELSE @])
            /\ call' = [call EXCEPT ![t] = c]
            /\ pc' = [pc EXCEPT ![t] = "cfv_fetch"]
    /\ UNCHANGED <<takes, token, modelCacheLock, modelCacheMap, nextInst>>

\* GetJson(".../v1/customfields/{field id}") and the rest of the function on its
\* response (neaktor_model.go:1066-1111).
GetCustomFieldValueFetch(t, resp) ==
    LET m == call[t].recv
        at == now
        caches == CachesOf(m)
        key == call[t].arg.key
        keys == IF ~resp.fail /\ resp.decodable /\ Len(resp.data) > 0 THEN {key} ELSE {}
        c == [call[t] EXCEPT !.reqs = Append(@, Request("GET", <<"customfields", key>>, token)),
                             !.fetchAt = at, !.rx = Digest(resp, ArrayCoded(resp), keys)]
        stored == StoreCustomFields(resp.data, 1, caches.modelCustomFieldCacheMap, key, at)
        entry == EntryOf(stored, key)
        found == IF Len(entry) > 0 THEN OptionById(entry[1].customFieldOptions, call[t].arg.want) ELSE <<>>
    IN
    /\ pc[t] = "cfv_fetch"
    /\ pc' = [pc EXCEPT ![t] = "done"]
    /\ IF resp.fail \/ ~resp.decodable
       THEN /\ call' = [call EXCEPT ![t] = [c EXCEPT
                           !.err = IF resp.fail THEN Bare("TransportError") ELSE Bare("UnmarshalError"),
                           !.left = EntryOf(caches.modelCustomFieldCacheMap, key)]]
            /\ heap' = HeapPut(m, [caches EXCEPT !.modelCustomFieldCacheLock = NoThread])
       ELSE /\ heap' = HeapPut(m, [caches EXCEPT !.modelCustomFieldCacheLock = NoThread,
                                                 !.modelCustomFieldCacheMap = stored])
            /\ IF Len(found) > 0
               THEN call' = [call EXCEPT ![t] = [c EXCEPT !.ret = found[1].value, !.src = "refresh",
                                                         !.stamp = entry[1].lastUpdatedAt, !.left = entry]]
               ELSE call' = [call EXCEPT ![t] = [c EXCEPT !.err = Bare("ErrModelCustomFieldValueNotFound"),
                                                         !.left = entry]]
    /\ UNCHANGED <<now, takes, token, modelCacheLock, modelCacheMap, nextInst>>

\* ---- Model.GetAssignee (neaktor_model.go:1114-1194)

GetAssigneeCall(t, m, status, name) ==
    /\ Enter(t, NewCall("GetAssignee", m, status.Id, name, NilAssignee), "ga_lock")
    /\ UNCHANGED <<now, takes, token, modelCacheLock, modelCacheMap, nextInst, heap>>

\* m.modelAssigneeCacheLock.Lock() and "cache first" (neaktor_model.go:1128-1143).
GetAssigneeCheck(t, at) ==
    LET m == call[t].recv
        caches == CachesOf(m)
        key == call[t].arg.key
        had == EntryOf(caches.modelAssigneeCacheMap, key)
        found == IF Len(had) > 0 /\ IsFresh(at, had[1].lastUpdatedAt)
                 THEN AssigneeByName(had[1].modelAssignees, call[t].arg.want) ELSE <<>>
        c == [call[t] EXCEPT !.checkAt = at, !.had = had]
    IN
    /\ pc[t] = "ga_lock"
    /\ TryLock(caches.modelAssigneeCacheLock)
    /\ now' = at
    /\ IF Len(found) > 0
       THEN /\ call' = [call EXCEPT ![t] = [c EXCEPT !.ret = found[1], !.src = "cache",
                                                     !.stamp = had[1].lastUpdatedAt, !.left = had]]
            /\ pc' = [pc EXCEPT ![t] = "done"]
            /\ UNCHANGED heap
       ELSE /\ heap' = HeapPut(m, [caches EXCEPT
                           !.modelAssigneeCacheLock = t,
                           !.modelAssigneeCacheMap = IF Len(had) > 0 THEN MapDelete(@, key) ELSE @])
            /\ call' = [call EXCEPT ![t] = c]
            /\ pc' = [pc EXCEPT ![t] = "ga_fetch"]
    /\ UNCHANGED <<takes, token, modelCacheLock, modelCacheMap, nextInst>>

\* GetJson(".../v1/taskmodels/{model id}/{status id}/routings") and the rest of the
\* function on its response (neaktor_model.go:1147-1193).
GetAssigneeFetch(t, resp) ==
    LET m == call[t].recv
        at == now
        caches == CachesOf(m)
        key == call[t].arg.key
        keys == IF ~resp.fail /\ resp.decodable THEN {resp.data[i].To : i \in 1..Len(resp.data)} ELSE {}
        c == [call[t] EXCEPT !.reqs = Append(@, Request("GET", <<"taskmodels", m.id, key, "routings">>, token)),
                             !.fetchAt = at, !.rx = Digest(resp, ArrayCoded(resp), keys)]
        stored == StoreRoutings(resp.data, 1, caches.modelAssigneeCacheMap, at)
        entry == EntryOf(stored, key)
        found == IF Len(entry) > 0 THEN AssigneeByName(entry[1].modelAssignees, call[t].arg.want) ELSE <<>>
    IN
    /\ pc[t] = "ga_fetch"
    /\ pc' = [pc EXCEPT ![t] = "done"]
    /\ IF resp.fail \/ ~resp.decodable
       THEN /\ call' = [call EXCEPT ![t] = [c EXCEPT
                           !.err = IF resp.fail THEN Bare("TransportError") ELSE Bare("UnmarshalError"),
                           !.left = EntryOf(caches.modelAssigneeCacheMap, key)]]
            /\ heap' = HeapPut(m, [caches EXCEPT !.modelAssigneeCacheLock = NoThread])
       ELSE /\ heap' = HeapPut(m, [caches EXCEPT !.modelAssigneeCacheLock = NoThread,
                                                 !.modelAssigneeCacheMap = stored])
            /\ IF Len(found) > 0
               THEN call' = [call EXCEPT ![t] = [c EXCEPT !.ret = found[1], !.src = "refresh",
                                                         !.stamp = entry[1].lastUpdatedAt, !.left = entry]]
               ELSE call' = [call EXCEPT ![t] = [c EXCEPT !.err = Bare("ErrModelAssigneeNotFound"),
                                                         !.left = entry]]
    /\ UNCHANGED <<now, takes, token, modelCacheLock, modelCacheMap, nextInst>>

----------------------------------------------------------------------------
\* Task listings (neaktor_model.go:1234-1642).

\* The service's answer to a page request: total tasks in all, PageLimit per page.
\* The first task of a page carries fields: a start date, which does not parse if
\* bad, the email field twice, and a field that the Model does not have.
DateStart == <<"s","t","a","r","t">>
DateEnd == <<"e","n","d">>
DateStatusClosed == <<"s","t","a","t","u","s","C","l","o","s","e","d","D","a","t","e">>
GoodDate == "21-03-2024T10:00:00"
BadDate == "2024-03-21 10:00"

\* time.Parse("02-01-2006T15:04:05", value)
ParsesAsDate(value) == value = GoodDate

\* A value of a response is written as its JSON text is decoded: NumberValue is the
\* number 17, which json.Unmarshal decodes into a float64 and not into a string.
\* field.Value.(string) panics on it.
NumberValue == "17"
IsString(value) == value # NumberValue

RawStatus(status) == [i \in 1..Len(status.Name) |-> ToLower(status.Name[i])]

PageCount(total, page) ==
    IF total - page * PageLimit <= 0 THEN 0
    ELSE IF total - page * PageLimit < PageLimit THEN total - page * PageLimit
    ELSE PageLimit

TaskData(id, rawStatus, start) ==
    [ Id |-> id, Idx |-> id, Status |-> rawStatus,
      Fields |-> IF start = "" THEN <<>>
                 ELSE << [Id |-> DateStart, Value |-> <<start>>, State |-> "ACTIVE"],
                         [Id |-> FieldEmail.Id, Value |-> <<"a@b.c">>, State |-> "ACTIVE"],
                         [Id |-> <<"z","z">>, Value |-> <<>>, State |-> "HIDDEN"],
                         [Id |-> FieldEmail.Id, Value |-> <<"x@y.z">>, State |-> "ACTIVE"] >> ]

PageData(total, page, rawStatus, bad) ==
    [i \in 1..PageCount(total, page) |->
        TaskData(page * PageLimit + i, rawStatus, IF i > 1 THEN "" ELSE IF bad THEN BadDate ELSE GoodDate)]

PageResponses(total, page, rawStatus) ==
    {TransportFailure}
    \cup {Undecodable(s) : s \in HttpStatuses}
    \cup {Decoded(s, c, [Total |-> total, Data |-> PageData(total, page, rawStatus, bad)]) :
            s \in HttpStatuses, c \in WireCodes, bad \in BOOLEAN}

\* The fields a filtered listing is asked with, and the query they make
\* (url.Values: field id = value).
TaskField(modelField, value) == [ModelField |-> modelField, Value |-> value, State |-> ""]
AskedTaskFields == {<<TaskField(FieldEmail, "a@b.c")>>}
Query(fields) == [i \in 1..Len(fields) |-> <<fields[i].ModelField.Id, fields[i].Value>>]

\* A field of a task that must parse as a date and does not
\* (neaktor_model.go:1302-1319).
IsDateField(field) ==
    \/ EqualFold(field.Id, DateStart)
    \/ EqualFold(field.Id, DateEnd)
    \/ EqualFold(field.Id, DateStatusClosed)
DateFaults(taskData) ==
    {j \in 1..Len(taskData.Fields) :
        /\ IsDateField(taskData.Fields[j])
        /\ Len(taskData.Fields[j].Value) > 0
        /\ ~(IsString(taskData.Fields[j].Value[1]) /\ ParsesAsDate(taskData.Fields[j].Value[1]))}
Malformed(taskData) ==
    /\ DateFaults(taskData) # {}
    /\ IsString(taskData.Fields[FirstIndex(DateFaults(taskData))].Value[1])

\* The first date field of the task that is not a date is not a string either: the
\* type assertion panics before time.Parse is called.
Panics(taskData) ==
    /\ DateFaults(taskData) # {}
    /\ ~IsString(taskData.Fields[FirstIndex(DateFaults(taskData))].Value[1])

\* The date a task gets from its fields: the last one given under the id, or none.
DateOf(taskData, id) ==
    LET hits == {j \in 1..Len(taskData.Fields) :
                    EqualFold(taskData.Fields[j].Id, id) /\ Len(taskData.Fields[j].Value) > 0}
    IN IF hits = {} THEN "" ELSE taskData.Fields[CHOOSE j \in hits : \A k \in hits : k <= j].Value[1]

\* The status of the Model whose name is the task's raw status, ignoring case
\* (neaktor_model.go:1328-1334).
ZeroStatus == [Id |-> <<>>, Name |-> <<>>, Closed |-> FALSE, Type |-> ""]
ResolveStatus(m, raw) ==
    LET hits == {id \in DOMAIN m.statuses : EqualFold(m.statuses[id].Name, raw)}
    IN IF hits = {} THEN ZeroStatus ELSE m.statuses[CHOOSE id \in hits : TRUE]

NewTask(m, status, id, idx, startDate, endDate, statusClosedDate, fields) ==
    [ model |-> m.inst, status |-> status, id |-> id, idx |-> idx, startDate |-> startDate,
      endDate |-> endDate, statusClosedDate |-> statusClosedDate, fields |-> fields ]

BuildTask(m, taskData) ==
    NewTask(m, ResolveStatus(m, taskData.Status), taskData.Id, taskData.Idx,
            DateOf(taskData, DateStart), DateOf(taskData, DateEnd), DateOf(taskData, DateStatusClosed),
            [j \in 1..Len(taskData.Fields) |->
                [ ModelField |-> IF taskData.Fields[j].Id \in DOMAIN m.fields
                                 THEN m.fields[taskData.Fields[j].Id]
                                 ELSE [Id |-> <<>>, Name |-> <<>>, State |-> ""],
                  Value |-> taskData.Fields[j].Value, State |-> taskData.Fields[j].State ]])

\* The loop over the tasks of a page (neaktor_model.go:1294-1337): tasks are appended
\* in order until one is malformed, which ends the call with an error.
AppendTasks(m, data, tasks) ==
    LET bad == {i \in 1..Len(data) : Malformed(data[i])}
        stop == IF bad = {} THEN Len(data) + 1 ELSE FirstIndex(bad)
    IN [ tasks |-> tasks \o [i \in 1..(stop - 1) |-> BuildTask(m, data[i])],
         err |-> IF bad = {} THEN NilErr ELSE Bare("TimeParseError") ]

\* math.Ceil(float64(n) / float64(d)), and two deviations from it.
Floor(n, d) == n \div d
CeilPlusOne(n, d) == n \div d + 1
Ceil(n, d) == IF n % d = 0 THEN n \div d ELSE n \div d + 1

\* ---- Model.GetTasksByStatus (neaktor_model.go:1234-1345)

\* limit := 50; maxPages := 1; page := 0
GetTasksByStatusCall(t, m, status, total) ==
    /\ Enter(t, [NewCall("GetTasksByStatus", m, status.Id, <<>>, <<>>) EXCEPT !.total = total, !.maxPages = 1],
             "ts_take")
    /\ UNCHANGED <<now, takes, token, modelCacheLock, modelCacheMap, nextInst, heap>>

\* A Take() that also moves the loop to the next page: page 0 is never asked for.
GetTasksByStatusTakeSkipping(t) ==
    /\ pc[t] = "ts_take"
    /\ takes' = takes + 1
    /\ call' = [call EXCEPT ![t].takes = @ + 1, ![t].page = @ + 1]
    /\ pc' = [pc EXCEPT ![t] = "ts_fetch"]
    /\ UNCHANGED <<now, token, modelCacheLock, modelCacheMap, nextInst, heap>>

\* m.neaktor.apiLimiter.Take() (neaktor_model.go:1273)
GetTasksByStatusTake(t) ==
    /\ pc[t] = "ts_take"
    /\ takes' = takes + 1
    /\ call' = [call EXCEPT ![t].takes = @ + 1]
    /\ pc' = [pc EXCEPT ![t] = "ts_fetch"]
    /\ UNCHANGED <<now, token, modelCacheLock, modelCacheMap, nextInst, heap>>

\* The request of one page and the rest of the loop body on its response
\* (neaktor_model.go:1275-1341), then page++ and the loop test.
GetTasksByStatusFetch(t, resp) ==
    LET m == call[t].recv
        page == call[t].page
        c == [call[t] EXCEPT
                !.reqs = Append(@, Request("GET",
                            [path |-> "tasks", model_id |-> m.id, status_id |-> call[t].arg.key,
                             query |-> <<>>, size |-> PageLimit, page |-> page], token)),
                !.fetchAt = now,
                !.rx = Digest(resp, ~resp.fail /\ resp.decodable /\ Len(resp.code) > 0, {})]
        built == AppendTasks(m, resp.data.Data, call[t].ret)
        maxPages == Ceil(resp.data.Total, PageLimit)
    IN
    /\ pc[t] = "ts_fetch"
    /\ IF resp.fail \/ ~resp.decodable
       THEN /\ call' = [call EXCEPT ![t] = [c EXCEPT
                           !.err = IF resp.fail THEN Bare("TransportError") ELSE Bare("UnmarshalError")]]
            /\ pc' = [pc EXCEPT ![t] = "done"]
       ELSE IF Len(resp.code) > 0
       THEN /\ call' = [call EXCEPT ![t] = [c EXCEPT !.err = parseErrorCode(resp.code, resp.message)]]
            /\ pc' = [pc EXCEPT ![t] = "done"]
       ELSE IF built.err # NilErr
       THEN /\ call' = [call EXCEPT ![t] = [c EXCEPT !.ret = built.tasks, !.err = built.err]]
            /\ pc' = [pc EXCEPT ![t] = "done"]
       ELSE /\ call' = [call EXCEPT ![t] = [c EXCEPT !.ret = built.tasks, !.maxPages = maxPages,
                                                     !.page = page + 1]]
            /\ pc' = [pc EXCEPT ![t] = IF page + 1 < maxPages THEN "ts_take" ELSE "done"]
    /\ UNCHANGED <<now, takes, token, modelCacheLock, modelCacheMap, nextInst, heap>>

\* ---- Model.GetTasksByStatusAndFields (neaktor_model.go:1360-1500)

GetTasksByStatusAndFieldsCall(t, m, status, fields, total) ==
    /\ Enter(t, [NewCall("GetTasksByStatusAndFields", m, status.Id, fields, <<>>) EXCEPT !.total = total],
             "tsf_take")
    /\ UNCHANGED <<now, takes, token, modelCacheLock, modelCacheMap, nextInst, heap>>

\* m.neaktor.apiLimiter.Take() (neaktor_model.go:1422)
GetTasksByStatusAndFieldsTake(t) ==
    /\ pc[t] = "tsf_take"
    /\ takes' = takes + 1
    /\ call' = [call EXCEPT ![t].takes = @ + 1]
    /\ pc' = [pc EXCEPT ![t] = "tsf_fetch"]
    /\ UNCHANGED <<now, token, modelCacheLock, modelCacheMap, nextInst, heap>>

\* The request of one page and the rest of the loop body on its response
\* (neaktor_model.go:1424-1496): the loop ends when total < 50 or when
\* float64(page) >= math.Ceil(float64(total/50)), total/50 being an integer division.
GetTasksByStatusAndFieldsFetch(t, resp) ==
    LET m == call[t].recv
        page == call[t].page
        c == [call[t] EXCEPT
                !.reqs = Append(@, Request("GET",
                            [path |-> "tasks", model_id |-> m.id, status_id |-> call[t].arg.key,
                             query |-> Query(call[t].arg.want), size |-> 50, page |-> page], token)),
                !.fetchAt = now,
                !.rx = Digest(resp, ~resp.fail /\ resp.decodable /\ Len(resp.code) > 0, {})]
        built == AppendTasks(m, resp.data.Data, call[t].ret)
    IN
    /\ pc[t] = "tsf_fetch"
    /\ IF resp.fail \/ ~resp.decodable
       THEN /\ call' = [call EXCEPT ![t] = [c EXCEPT
                           !.err = IF resp.fail THEN Bare("TransportError") ELSE Bare("UnmarshalError")]]
            /\ pc' = [pc EXCEPT ![t] = "done"]
       ELSE IF Len(resp.code) > 0
       THEN /\ call' = [call EXCEPT ![t] = [c EXCEPT !.err = parseErrorCode(resp.code, resp.message)]]
            /\ pc' = [pc EXCEPT ![t] = "done"]
       ELSE IF built.err # NilErr
       THEN /\ call' = [call EXCEPT ![t] = [c EXCEPT !.ret = built.tasks, !.err = built.err]]
            /\ pc' = [pc EXCEPT ![t] = "done"]
       ELSE IF resp.data.Total < 50 \/ page >= Ceil(resp.data.Total \div 50, 1)
       THEN /\ call' = [call EXCEPT ![t] = [c EXCEPT !.ret = built.tasks]]
            /\ pc' = [pc EXCEPT ![t] = "done"]
       ELSE /\ call' = [call EXCEPT ![t] = [c EXCEPT !.ret = built.tasks, !.page = page + 1]]
            /\ pc' = [pc EXCEPT ![t] = "tsf_take"]
    /\ UNCHANGED <<now, takes, token, modelCacheLock, modelCacheMap, nextInst, heap>>

\* ---- Model.GetTasksByFields (neaktor_model.go:1502-1642)

GetTasksByFieldsCall(t, m, fields, total) ==
    /\ Enter(t, [NewCall("GetTasksByFields", m, <<>>, fields, <<>>) EXCEPT !.total = total], "tf_take")
    /\ UNCHANGED <<now, takes, token, modelCacheLock, modelCacheMap, nextInst, heap>>

\* m.neaktor.apiLimiter.Take() (neaktor_model.go:1564)
GetTasksByFieldsTake(t) ==
    /\ pc[t] = "tf_take"
    /\ takes' = takes + 1
    /\ call' = [call EXCEPT ![t].takes = @ + 1]
    /\ pc' = [pc EXCEPT ![t] = "tf_fetch"]
    /\ UNCHANGED <<now, token, modelCacheLock, modelCacheMap, nextInst, heap>>

\* The request of one page and the rest of the loop body on its response
\* (neaktor_model.go:1566-1638), with the loop exits of GetTasksByStatusAndFields.
GetTasksByFieldsFetch(t, resp) ==
    LET m == call[t].recv
        page == call[t].page
        c == [call[t] EXCEPT
                !.reqs = Append(@, Request("GET",
                            [path |-> "tasks", model_id |-> m.id, status_id |-> <<>>,
                             query |-> Query(call[t].arg.want), size |-> 50, page |-> page], token)),
                !.fetchAt = now,
                !.rx = Digest(resp, ~resp.fail /\ resp.decodable /\ Len(resp.code) > 0, {})]
        built == AppendTasks(m, resp.data.Data, call[t].ret)
    IN
    /\ pc[t] = "tf_fetch"
    /\ IF resp.fail \/ ~resp.decodable
       THEN /\ call' = [call EXCEPT ![t] = [c EXCEPT
                           !.err = IF resp.fail THEN Bare("TransportError") ELSE Bare("UnmarshalError")]]
            /\ pc' = [pc EXCEPT ![t] = "done"]
       ELSE IF Len(resp.code) > 0
       THEN /\ call' = [call EXCEPT ![t] = [c EXCEPT !.err = parseErrorCode(resp.code, resp.message)]]
            /\ pc' = [pc EXCEPT ![t] = "done"]
       ELSE IF built.err # NilErr
       THEN /\ call' = [call EXCEPT ![t] = [c EXCEPT !.ret = built.tasks, !.err = built.err]]
            /\ pc' = [pc EXCEPT ![t] = "done"]
       ELSE IF resp.data.Total < 50 \/ page >= Ceil(resp.data.Total \div 50, 1)
       THEN /\ call' = [call EXCEPT ![t] = [c EXCEPT !.ret = built.tasks]]
            /\ pc' = [pc EXCEPT ![t] = "done"]
       ELSE /\ call' = [call EXCEPT ![t] = [c EXCEPT !.ret = built.tasks, !.page = page + 1]]
            /\ pc' = [pc EXCEPT ![t] = "tf_take"]
    /\ UNCHANGED <<now, takes, token, modelCacheLock, modelCacheMap, nextInst, heap>>

----------------------------------------------------------------------------
\* The client, new, used from two threads that call GetModelByTitle.

Init ==
    /\ now = 0
    /\ takes = 0
    /\ token = "t1o2k3e4n5"
    /\ modelCacheLock = NoThread
    /\ modelCacheMap = EmptyMap
    /\ nextInst = 0
    /\ heap = EmptyMap
    /\ pc = [t \in Threads |-> "idle"]
    /\ call = [t \in Threads |-> NoCall]

Next ==
    \/ \E t \in Threads, title \in Titles : GetModelByTitleCall(t, title)
    \/ \E t \in Threads, at \in Later : GetModelByTitleCheck(t, at)
    \/ \E t \in Threads : GetModelByTitleTake(t)
    \/ \E t \in Threads, resp \in TaskModelResponses : GetModelByTitleFetch(t, resp)

Spec == Init /\ [][Next]_vars

----------------------------------------------------------------------------
\* The client after a first GetModelByTitle("A") answered, at time 0, by a listing
\* of the model A alone; two threads then use the client and the Model.

ModelA ==
    NewModel(1, "m1", StatusesById(<<StatusNew, StatusDone>>), FieldsById(<<FieldEmail, FieldStart>>))

InitLookup ==
    /\ now = 0
    /\ takes = 1
    /\ token = "t1o2k3e4n5"
    /\ modelCacheLock = NoThread
    /\ modelCacheMap = MapPut(EmptyMap, "A", ModelCache(0, ModelA))
    /\ nextInst = 1
    /\ heap = EmptyMap
    /\ pc = [t \in Threads |-> "idle"]
    /\ call = [t \in Threads |-> NoCall]

NextLookup ==
    \/ Next
    \/ \E t \in Threads, m \in Models, field \in AskedFields, value \in AskedValues :
            GetCustomFieldOptionIdCall(t, m, field, value)
    \/ \E t \in Threads, at \in Later : GetCustomFieldOptionIdCheck(t, at)
    \/ \E t \in Threads, resp \in CustomFieldResponses : GetCustomFieldOptionIdFetch(t, resp)
    \/ \E t \in Threads, m \in Models, field \in AskedFields, optionId \in AskedOptionIds :
            GetCustomFieldValueCall(t, m, field, optionId)
    \/ \E t \in Threads, at \in Later : GetCustomFieldValueCheck(t, at)
    \/ \E t \in Threads, resp \in CustomFieldResponses : GetCustomFieldValueFetch(t, resp)
    \/ \E t \in Threads, m \in Models, status \in AskedStatuses, name \in AskedNames :
            GetAssigneeCall(t, m, status, name)
    \/ \E t \in Threads, at \in Later : GetAssigneeCheck(t, at)
    \/ \E t \in Threads, resp \in RoutingResponses : GetAssigneeFetch(t, resp)

SpecLookup == InitLookup /\ [][NextLookup]_vars

----------------------------------------------------------------------------
\* The same client and Model; one thread lists tasks, of which the service has any
\* number up to MaxTotal.

Totals == 0..MaxTotal

NextPaging ==
    \/ \E m \in Models, status \in AskedStatuses, total \in Totals :
            GetTasksByStatusCall("t1", m, status, total)
    \/ GetTasksByStatusTake("t1")
    \/ \E resp \in PageResponses(call["t1"].total, call["t1"].page, RawStatus(StatusNew)) :
            GetTasksByStatusFetch("t1", resp)
    \/ \E m \in Models, status \in AskedStatuses, fields \in AskedTaskFields, total \in Totals :
            GetTasksByStatusAndFieldsCall("t1", m, status, fields, total)
    \/ GetTasksByStatusAndFieldsTake("t1")
    \/ \E resp \in PageResponses(call["t1"].total, call["t1"].page, RawStatus(StatusNew)) :
            GetTasksByStatusAndFieldsFetch("t1", resp)
    \/ \E m \in Models, fields \in AskedTaskFields, total \in Totals :
            GetTasksByFieldsCall("t1", m, fields, total)
    \/ GetTasksByFieldsTake("t1")
    \/ \E resp \in PageResponses(call["t1"].total, call["t1"].page, RawStatus(StatusNew)) :
            GetTasksByFieldsFetch("t1", resp)

SpecPaging == InitLookup /\ [][NextPaging]_vars

----------------------------------------------------------------------------
\* Vocabulary of the properties.

LookupOps == {"GetModelByTitle", "GetCustomFieldOptionId", "GetCustomFieldValue", "GetAssignee"}
IsLookup(t) == call[t].op \in LookupOps

Entered(t) == pc[t] # "idle"
Returned(t) == pc[t] = "done"
Refreshing(t) == pc[t] \in {"gm_take", "gm_fetch", "cfo_fetch", "cfv_fetch", "ga_fetch"}
Checked(t) == IsLookup(t) /\ (Refreshing(t) \/ Returned(t))
Requests(t) == Len(call[t].reqs)

\* u's call was entered after t's had returned; t's and u's calls overlap.
After(u, t) == Entered(u) /\ t \in call[u].prior
Concurrent(t, u) == t # u /\ Entered(t) /\ Entered(u) /\ ~After(u, t) /\ ~After(t, u)

\* An entry stamped lastUpdatedAt is live at a time at: it is less than 30 minutes old.
LiveAt(at, lastUpdatedAt) == at < lastUpdatedAt + ModelCacheTime
FoundLive(t) == Checked(t) /\ Len(call[t].had) > 0 /\ LiveAt(call[t].checkAt, call[t].had[1].lastUpdatedAt)
FoundExpired(t) == Checked(t) /\ Len(call[t].had) > 0 /\ ~LiveAt(call[t].checkAt, call[t].had[1].lastUpdatedAt)

\* The cache a lookup works on, as it is now.
CacheOf(t) ==
    IF call[t].op = "GetModelByTitle" THEN modelCacheMap
    ELSE IF call[t].op = "GetAssignee" THEN CachesOf(call[t].recv).modelAssigneeCacheMap
    ELSE CachesOf(call[t].recv).modelCustomFieldCacheMap

\* The request of t's call was answered, and the answer is a success: no transport
\* error, a status below 500, a decodable body, no wire code. Or it is a failure.
Answered(t) == Requests(t) > 0 /\ Returned(t)
AnswerOk(t) ==
    /\ Answered(t)
    /\ ~call[t].rx.fail /\ ~call[t].rx.over500 /\ call[t].rx.decodable /\ ~call[t].rx.coded
AnswerFailed(t) == Answered(t) /\ ~AnswerOk(t)

\* What t's call returned is data of the entry: the Model, or the option or the
\* assignee that matches what was asked.
FromEntry(t, entry) ==
    IF call[t].op = "GetModelByTitle" THEN call[t].ret = entry.model
    ELSE IF call[t].op = "GetCustomFieldOptionId"
    THEN \E i \in 1..Len(entry.customFieldOptions) :
            entry.customFieldOptions[i] = CustomFieldOption(call[t].ret, call[t].arg.want)
    ELSE IF call[t].op = "GetCustomFieldValue"
    THEN \E i \in 1..Len(entry.customFieldOptions) :
            entry.customFieldOptions[i] = CustomFieldOption(call[t].arg.want, call[t].ret)
    ELSE \E i \in 1..Len(entry.modelAssignees) :
            entry.modelAssignees[i] = call[t].ret /\ call[t].ret.name = call[t].arg.want

----------------------------------------------------------------------------
\* C1: GetModelByTitle(title) that finds a live entry for title (less than 30 minutes
\* old) returns the cached Model with no HTTP request and no Take(); and two
\* successful calls for one title, the second within the TTL of the first's entry,
\* issue exactly one GET /taskmodels between them.
C1_LiveModelEntryIsServed ==
    /\ \A t \in Threads :
          call[t].op = "GetModelByTitle" /\ FoundLive(t)
          => /\ Returned(t) /\ call[t].err = NilErr
             /\ call[t].ret = call[t].had[1].model
             /\ Requests(t) = 0 /\ call[t].takes = 0
    /\ \A t, u \in Threads :
          /\ call[t].op = "GetModelByTitle" /\ call[u].op = "GetModelByTitle"
          /\ call[t].arg.key = call[u].arg.key
          /\ After(u, t) /\ Returned(u)
          /\ call[t].err = NilErr /\ call[u].err = NilErr
          /\ LiveAt(call[u].checkAt, call[t].stamp)
          => /\ Requests(t) + Requests(u) = 1
             /\ takes = 1
             /\ call[u].ret = call[t].ret

C1_Witness ==
    \E t, u \in Threads :
        /\ call[t].op = "GetModelByTitle" /\ call[u].op = "GetModelByTitle"
        /\ call[t].arg.key = call[u].arg.key
        /\ After(u, t) /\ Returned(u) /\ call[u].err = NilErr
        /\ call[t].src = "refresh" /\ call[u].src = "cache"
        /\ call[u].checkAt = call[t].stamp + ModelCacheTime - 1
        /\ Requests(t) = 1 /\ Requests(u) = 0

\* C2: in each of the three caches, a lookup for a key whose entry is expired deletes
\* the entry before it issues the request (the entry is gone while the refresh is
\* under way) and issues exactly one request.
C2_StaleEntryEvictedThenOneRefresh ==
    \A t \in Threads :
        FoundExpired(t)
        => /\ Refreshing(t) => Requests(t) = 0 /\ call[t].arg.key \notin DOMAIN CacheOf(t)
           /\ Returned(t) => Requests(t) = 1 /\ call[t].src # "cache"

C2_Witness ==
    \E t, u \in Threads :
        /\ call[t].op = "GetCustomFieldOptionId" /\ call[u].op = "GetCustomFieldValue"
        /\ FoundExpired(u) /\ Returned(u) /\ Requests(u) = 1
        /\ call[u].had[1].lastUpdatedAt = call[t].fetchAt
        /\ call[u].checkAt > call[t].fetchAt + ModelCacheTime

\* C3: no lookup returns data of an entry that is expired when it is read. A result
\* read at the first cache read comes from an entry less than 30 minutes old (one
\* exactly 30 minutes old is not used); a result read after the refresh comes from an
\* entry that this refresh wrote; and no result comes from anywhere else.
C3_NoExpiredEntryIsReturned ==
    \A t \in Threads :
        IsLookup(t) /\ Returned(t)
        => /\ call[t].src = "cache"
              => /\ Len(call[t].had) > 0
                 /\ call[t].checkAt < call[t].had[1].lastUpdatedAt + ModelCacheTime
                 /\ call[t].stamp = call[t].had[1].lastUpdatedAt
                 /\ FromEntry(t, call[t].had[1])
                 /\ Requests(t) = 0
           /\ call[t].src = "refresh"
              => /\ Requests(t) = 1
                 /\ call[t].arg.key \in call[t].rx.keys
                 /\ Len(call[t].left) > 0
                 /\ call[t].stamp = call[t].fetchAt
                 /\ call[t].left[1].lastUpdatedAt = call[t].fetchAt
                 /\ FromEntry(t, call[t].left[1])
           /\ call[t].err = NilErr <=> call[t].src \in {"cache", "refresh"}

C3_Witness ==
    \E t \in Threads :
        /\ call[t].op = "GetAssignee" /\ Returned(t)
        /\ Len(call[t].had) > 0
        /\ call[t].checkAt = call[t].had[1].lastUpdatedAt + ModelCacheTime
        /\ call[t].src = "refresh"
        /\ call[t].left[1].lastUpdatedAt = call[t].checkAt

\* C4: two threads call GetModelByTitle for one title concurrently, every listing
\* request made succeeds and lists the title, and each caller reads the cache within
\* the TTL of an entry the other has written: then one request is issued in all, and
\* both return the same Model, the one the first wrote under the mutex.
C4_ConcurrentCallersShareOneFetch ==
    \A t, u \in Threads :
        /\ Concurrent(t, u) /\ Returned(t) /\ Returned(u)
        /\ call[t].op = "GetModelByTitle" /\ call[u].op = "GetModelByTitle"
        /\ call[t].arg.key = call[u].arg.key
        /\ Requests(t) > 0 => AnswerOk(t) /\ call[t].arg.key \in call[t].rx.keys
        /\ Requests(u) > 0 => AnswerOk(u) /\ call[u].arg.key \in call[u].rx.keys
        /\ call[t].src = "refresh" => LiveAt(call[u].checkAt, call[t].stamp)
        /\ call[u].src = "refresh" => LiveAt(call[t].checkAt, call[u].stamp)
        => /\ Requests(t) + Requests(u) = 1
           /\ call[t].err = NilErr /\ call[u].err = NilErr
           /\ call[t].ret = call[u].ret
           /\ call[t].ret.inst > 0

C4_Witness ==
    \E t, u \in Threads :
        /\ Concurrent(t, u) /\ Returned(t) /\ Returned(u)
        /\ call[t].op = "GetModelByTitle" /\ call[u].op = "GetModelByTitle"
        /\ call[t].arg.key = call[u].arg.key
        /\ call[t].src = "refresh" /\ call[u].src = "cache"
        /\ Requests(t) = 1 /\ Requests(u) = 0
        /\ call[t].ret = call[u].ret

\* C5: after a GetModelByTitle(A) whose listing request succeeded, a following
\* GetModelByTitle(B), for another name B of that listing and within the TTL of the
\* refresh, is served from the cache: no request, no Take(), the entry of that refresh.
C5_RefreshCachesEveryListedName ==
    \A t, u \in Threads :
        /\ call[t].op = "GetModelByTitle" /\ call[u].op = "GetModelByTitle"
        /\ After(u, t) /\ Checked(u)
        /\ AnswerOk(t)
        /\ call[u].arg.key # call[t].arg.key
        /\ call[u].arg.key \in call[t].rx.keys
        /\ LiveAt(call[u].checkAt, call[t].fetchAt)
        => /\ Returned(u) /\ call[u].err = NilErr
           /\ call[u].src = "cache" /\ call[u].stamp = call[t].fetchAt
           /\ Requests(u) = 0 /\ call[u].takes = 0

C5_Witness ==
    \E t, u \in Threads :
        /\ call[t].op = "GetModelByTitle" /\ call[u].op = "GetModelByTitle"
        /\ After(u, t) /\ Returned(u)
        /\ call[t].arg.key = "A" /\ call[u].arg.key = "B"
        /\ call[t].src = "refresh" /\ call[u].src = "cache"
        /\ call[u].ret.id = "m2" /\ Requests(u) = 0

\* C6: GetModelByTitle(title) fails with ErrModelNotFound exactly when its listing
\* request succeeded and no item of the listing is named title; the cache then holds
\* no entry for title when the call returns.
C6_ModelNotFoundExactlyWhenUnlisted ==
    \A t \in Threads :
        call[t].op = "GetModelByTitle" /\ Returned(t)
        => /\ call[t].err = Bare("ErrModelNotFound")
              <=> AnswerOk(t) /\ call[t].arg.key \notin call[t].rx.keys
           /\ call[t].err = Bare("ErrModelNotFound") => call[t].left = <<>>

C6_Witness ==
    \E t \in Threads :
        /\ call[t].op = "GetModelByTitle" /\ Returned(t)
        /\ call[t].err = Bare("ErrModelNotFound")
        /\ call[t].rx.keys = {"B"} /\ call[t].arg.key = "A"
        /\ Len(call[t].had) > 0 /\ call[t].left = <<>>

\* C7: a lookup that finds an expired entry for its key and whose refresh fails (a
\* transport error, a status of 500 or more, an undecodable body, a wire code) leaves
\* no entry for the key in the cache when it returns.
\* The next lookup for the key then issues a request of its own.
C7_FailedRefreshLeavesNoEntry ==
    /\ \A t \in Threads :
          FoundExpired(t) /\ Returned(t) /\ AnswerFailed(t) => call[t].left = <<>>
    /\ \A t, u \in Threads :
          /\ FoundExpired(t) /\ Returned(t) /\ AnswerFailed(t)
          /\ After(u, t) /\ Returned(u)
          /\ call[u].recv = call[t].recv /\ call[u].arg.key = call[t].arg.key
          => Requests(u) = 1

\* C8: every HTTP request of a call is preceded, in that call, by one Take() of its
\* own: a call never has more requests than Take()s, and has as many when it returns.
C8_EveryRequestHasItsTake ==
    \A t \in Threads :
        /\ Requests(t) <= call[t].takes
        /\ Returned(t) => Requests(t) = call[t].takes

\* The listing calls that returned without an error: the service answered every page.
Listed(t, ops) == call[t].op \in ops /\ Returned(t) /\ call[t].err = NilErr

\* The tasks t's call returned are the service's total tasks, in order.
ReturnsAll(t) ==
    /\ Len(call[t].ret) = call[t].total
    /\ \A i \in 1..Len(call[t].ret) : call[t].ret[i].id = i

\* C9: GetTasksByStatus, answered on every page with the same total and the items of
\* the page asked, returns exactly the total tasks and issues ceil(total/50) page
\* requests, but one request, not none, when the total is 0.
C9_StatusListingFetchesCeilPages ==
    \A t \in Threads :
        Listed(t, {"GetTasksByStatus"})
        => /\ ReturnsAll(t)
           /\ Requests(t) = IF call[t].total = 0 THEN 1 ELSE (call[t].total + 49) \div 50
           /\ \A i \in 1..Requests(t) : call[t].reqs[i].path.page = i - 1

C9_Witness ==
    \E t \in Threads :
        /\ Listed(t, {"GetTasksByStatus"})
        /\ call[t].total = 75 /\ Requests(t) = 2 /\ Len(call[t].ret) = 75

\* C9 as it was stated: ceil(total/50) page requests for every total >= 0.
C9_AsStated ==
    \A t \in Threads :
        Listed(t, {"GetTasksByStatus"})
        => /\ ReturnsAll(t)
           /\ Requests(t) = (call[t].total + 49) \div 50

\* C10: GetTasksByStatusAndFields and GetTasksByFields, answered on every page with
\* the same total, return exactly the total tasks and issue ceil(total/50) page
\* requests, for every total of at least one task, the multiples of 50 included.
C10_FilteredListingsFetchCeilPages ==
    \A t \in Threads :
        Listed(t, {"GetTasksByStatusAndFields", "GetTasksByFields"}) /\ call[t].total >= 1
        => /\ ReturnsAll(t)
           /\ Requests(t) = (call[t].total + 49) \div 50

----------------------------------------------------------------------------
\* C11: each of the three page loops terminates. With the same total on every page,
\* a listing call never issues more than floor(total/50)+1 page requests; a page
\* that fails (transport error, undecodable body, wire code, malformed date) is
\* the last one requested; and every answered page either ends the call or moves
\* the loop to the next page, so the bounded page counter is the loop's variant,
\* and a call that has not returned can always take its next step.
ListingOps == {"GetTasksByStatus", "GetTasksByStatusAndFields", "GetTasksByFields"}

PageFailed(t) ==
    /\ Requests(t) > 0
    /\ call[t].rx.fail \/ ~call[t].rx.decodable \/ call[t].rx.coded \/ call[t].err # NilErr

----------------------------------------------------------------------------
\* The error classifier on its own (part_005:37-55): a caller hands it a wire code
\* and a message and gets its error back.

Lowered(code) == [i \in 1..Len(code) |-> ToLower(code[i])]

Codes ==
    { <<>>, <<"4","0","3">>, <<"4","0","4">>, <<"4","2","2">>, <<"4","2","9">>, <<"5","0","0">>,
      ErrCode429, ErrCode500, Lowered(ErrCode429), Lowered(ErrCode500),
      <<"4","0","0">>, <<"4","0","4","0">>, <<"N","O","T","_","F","O","U","N","D">> }
Messages == {"", "Not Found", "Too many requests"}

parseErrorCodeCall(t, code, message) ==
    /\ Enter(t, NewCall("parseErrorCode", NilModel, code, message, <<>>), "pe_run")
    /\ UNCHANGED <<now, takes, token, modelCacheLock, modelCacheMap, nextInst, heap>>

parseErrorCodeReturn(t) ==
    /\ pc[t] = "pe_run"
    /\ call' = [call EXCEPT ![t].err = parseErrorCode(call[t].arg.key, call[t].arg.want)]
    /\ pc' = [pc EXCEPT ![t] = "done"]
    /\ UNCHANGED <<now, takes, token, modelCacheLock, modelCacheMap, nextInst, heap>>

NextClassify ==
    \/ \E t \in Threads, code \in Codes, message \in Messages : parseErrorCodeCall(t, code, message)
    \/ \E t \in Threads : parseErrorCodeReturn(t)

SpecClassify == Init /\ [][NextClassify]_vars

\* The sentinels, by name, with the text each is made of.
Sentinels ==
    [ ErrCode403 |-> ErrCode403, ErrCode404 |-> ErrCode404, ErrCode422 |-> ErrCode422,
      ErrCode429 |-> ErrCode429, ErrCode500 |-> ErrCode500 ]

Classified(t) == call[t].op = "parseErrorCode" /\ Returned(t)

\* C12: parseErrorCode is total. Whatever the code, the empty one included, it
\* returns an error that is not nil and is of one category: one of the five
\* sentinels with the message, or ErrCodeUnknown; and it is ErrCodeUnknown for
\* every code that equals no sentinel's text under case folding.
C12_ClassifierIsTotal ==
    \A t \in Threads :
        Classified(t)
        => /\ call[t].err # NilErr
           /\ \/ call[t].err = Bare("ErrCodeUnknown")
              \/ \E name \in DOMAIN Sentinels : call[t].err = Wrap(name, call[t].arg.want)
           /\ (\A name \in DOMAIN Sentinels : Lowered(call[t].arg.key) # Lowered(Sentinels[name]))
              => call[t].err = Bare("ErrCodeUnknown")

C12_Witness ==
    \E t \in Threads :
        /\ Classified(t) /\ call[t].arg.key = <<>> /\ call[t].err = Bare("ErrCodeUnknown")

\* C13: the codes "403", "404", "422", "429 TOO_MANY_REQUESTS" and
\* "500 INTERNAL_SERVER_ERROR", in any letter case, yield the error that wraps the
\* corresponding sentinel with the message; the bare codes "429" and "500" are not
\* among them and yield ErrCodeUnknown.
C13_SentinelTextsAreClassified ==
    \A t \in Threads :
        Classified(t)
        => /\ \A name \in DOMAIN Sentinels :
                Lowered(call[t].arg.key) = Lowered(Sentinels[name])
                => call[t].err = Wrap(name, call[t].arg.want)
           /\ call[t].arg.key \in {<<"4","2","9">>, <<"5","0","0">>}
                => call[t].err = Bare("ErrCodeUnknown")

C13_Witness ==
    \E t \in Threads :
        /\ Classified(t) /\ call[t].arg.key = Lowered(ErrCode429)
        /\ call[t].err = Wrap("ErrCode429", "Too many requests")

\* C13 as it was stated: each of the wire codes "403", "404", "422", "429", "500"
\* yields the error wrapping its sentinel with the message, never ErrCodeUnknown.
C13_AsStated ==
    \A t \in Threads :
        Classified(t)
        => \A name \in DOMAIN Sentinels :
                call[t].arg.key = SubSeq(Sentinels[name], 1, 3)
                => call[t].err = Wrap(name, call[t].arg.want)

----------------------------------------------------------------------------
\* Task: the three remote mutations (part_002:140-329), Model.GetTaskById
\* (neaktor_model.go:1644-1733) and Neaktor.RefreshToken (part_001:292-338).

\* A field value (interface{}): a string, a number, a boolean, or nil.
Str(s) == [kind |-> "string", text |-> s]
Num(n) == [kind |-> "number", text |-> ToString(n)]
Boolean(b) == [kind |-> "boolean", text |-> IF b THEN "true" ELSE "false"]
Nil == [kind |-> "null", text |-> ""]
Values == {Str("a@b.c"), Str(""), Num(42), Num(0), Boolean(TRUE), Boolean(FALSE), Nil}

\* encoding/json on a struct: the members in the order of the struct's fields, a
\* member being <<key, value>>. A field tagged omitempty is left out when its
\* value is empty: the empty string, the empty slice, the nil pointer, the nil
\* interface (a non-nil interface is kept whatever it holds: "", 0, false).
\* Strings, slices and pointers are sequences here, empty when of length 0; an int
\* is empty when 0, and a string kept as a text when "".
StructField(key, kind, omitempty, v) == [key |-> key, kind |-> kind, omitempty |-> omitempty, v |-> v]
IsEmptyValue(f) ==
    IF f.kind = "interface" THEN f.v = Nil
    ELSE IF f.kind = "int" THEN f.v = 0
    ELSE IF f.kind = "text" THEN f.v = ""
    ELSE Len(f.v) = 0
Marshal(struct) ==
    LET kept == SelectSeq(struct, LAMBDA f : ~(f.omitempty /\ IsEmptyValue(f)))
    IN [i \in 1..Len(kept) |-> <<kept[i].key, kept[i].v>>]

\* UpdateTaskRequestField{Id, Value}, both omitempty (part_002:146-149).
UpdateTaskRequestField(field) ==
    Marshal(<< StructField("id", "string", TRUE, field.ModelField.Id),
               StructField("value", "interface", TRUE, field.Value) >>)

\* UpdateTaskRequest{Fields: updateFields}; startDate, endDate and assignee are
\* never set, and every member is omitempty (part_002:151-156, 166-177).
UpdateTaskRequest(fields) ==
    Marshal(<< StructField("startDate", "string", TRUE, <<>>),
               StructField("endDate", "string", TRUE, <<>>),
               StructField("assignee", "pointer", TRUE, <<>>),
               StructField("fields", "slice", TRUE,
                           [i \in 1..Len(fields) |-> UpdateTaskRequestField(fields[i])]) >>)

\* UpdateTaskStatusRequest{Status: status.Id} (part_002:225-229, 239-241).
UpdateTaskStatusRequest(status) ==
    Marshal(<< StructField("status", "string", TRUE, status.Id),
               StructField("conditionId", "string", TRUE, <<>>),
               StructField("assignee", "pointer", TRUE, <<>>) >>)

\* CreateCommentToTaskRequest{Text: message}; text is not omitempty (part_002:284-286).
CreateCommentToTaskRequest(message) ==
    Marshal(<< StructField("text", "string", FALSE, message) >>)

BodyRequest(method, path, auth, body) == [method |-> method, path |-> path, auth |-> auth, body |-> body]

\* The Task the mutations are called on, as a listing of ModelA built it.
TaskFields == SeqsUpTo({TaskField(FieldEmail, v) : v \in Values}, MaxItems)
TheTask ==
    NewTask(ModelA, StatusNew, 7, "T-7", GoodDate, "", "", <<TaskField(FieldEmail, Str("a@b.c"))>>)

\* What the service may answer to a mutation: {code, message}.
MutationStatuses == {200, 404, 500}
MutationCodes == {<<>>, <<"4","0","4">>, <<"4","2","9">>}
MutationResponses ==
    {TransportFailure}
    \cup {Undecodable(s) : s \in MutationStatuses}
    \cup {Decoded(s, c, <<>>) : s \in MutationStatuses, c \in MutationCodes}

\* A response handling without the test of the status: the body decides alone.
ResponseErrorUnchecked(resp) ==
    IF resp.fail THEN Bare("TransportError")
    ELSE IF ~resp.decodable THEN Bare("UnmarshalError")
    ELSE IF Len(resp.code) > 0 THEN parseErrorCode(resp.code, resp.message)
    ELSE NilErr

\* The error a mutation returns on its response (part_002:190-210, 254-274, 309-329).
ResponseError(resp) ==
    IF resp.fail THEN Bare("TransportError")
    ELSE IF resp.status >= 500 THEN Bare("ServiceUnavailable")
    ELSE IF ~resp.decodable THEN Bare("UnmarshalError")
    ELSE IF Len(resp.code) > 0 THEN parseErrorCode(resp.code, resp.message)
    ELSE NilErr

\* What a mutation's call keeps of its request and response.
Mutated(c, request, resp) ==
    [c EXCEPT !.reqs = Append(@, request),
              !.fetchAt = now,
              !.rx = Digest(resp, ~resp.fail /\ resp.decodable /\ Len(resp.code) > 0, {}),
              !.resp = <<resp>>,
              !.err = ResponseError(resp)]

\* ---- Task.UpdateFields (part_002:140-210)

UpdateFieldsCall(t, task, fields) ==
    /\ Enter(t, NewCall("UpdateFields", task, task.id, fields, <<>>), "uf_take")
    /\ UNCHANGED <<now, takes, token, modelCacheLock, modelCacheMap, nextInst, heap>>

\* t.model.neaktor.apiLimiter.Take() (part_002:164)
UpdateFieldsTake(t) ==
    /\ pc[t] = "uf_take"
    /\ takes' = takes + 1
    /\ call' = [call EXCEPT ![t].takes = @ + 1]
    /\ pc' = [pc EXCEPT ![t] = "uf_fetch"]
    /\ UNCHANGED <<now, token, modelCacheLock, modelCacheMap, nextInst, heap>>

\* The payload, the PUT and the handling of its response (part_002:166-210).
UpdateFieldsFetch(t, resp) ==
    /\ pc[t] = "uf_fetch"
    /\ call' = [call EXCEPT ![t] =
                  Mutated(call[t], BodyRequest("PUT", <<"tasks", call[t].recv.id>>, token,
                                               UpdateTaskRequest(call[t].arg.want)), resp)]
    /\ pc' = [pc EXCEPT ![t] = "done"]
    /\ UNCHANGED <<now, takes, token, modelCacheLock, modelCacheMap, nextInst, heap>>

\* ---- Task.UpdateStatus (part_002:219-274)

UpdateStatusCall(t, task, status) ==
    /\ Enter(t, NewCall("UpdateStatus", task, task.id, status, <<>>), "us_take")
    /\ UNCHANGED <<now, takes, token, modelCacheLock, modelCacheMap, nextInst, heap>>

\* t.model.neaktor.apiLimiter.Take() (part_002:237)
UpdateStatusTake(t) ==
    /\ pc[t] = "us_take"
    /\ takes' = takes + 1
    /\ call' = [call EXCEPT ![t].takes = @ + 1]
    /\ pc' = [pc EXCEPT ![t] = "us_fetch"]
    /\ UNCHANGED <<now, token, modelCacheLock, modelCacheMap, nextInst, heap>>

UpdateStatusFetch(t, resp) ==
    /\ pc[t] = "us_fetch"
    /\ call' = [call EXCEPT ![t] =
                  Mutated(call[t], BodyRequest("POST", <<"tasks", call[t].recv.id, "status", "change">>, token,
                                               UpdateTaskStatusRequest(call[t].arg.want)), resp)]
    /\ pc' = [pc EXCEPT ![t] = "done"]
    /\ UNCHANGED <<now, takes, token, modelCacheLock, modelCacheMap, nextInst, heap>>

\* ---- Task.AddComment (part_002:283-329): no Take().

AddCommentCall(t, task, message) ==
    /\ Enter(t, NewCall("AddComment", task, task.id, message, <<>>), "ac_fetch")
    /\ UNCHANGED <<now, takes, token, modelCacheLock, modelCacheMap, nextInst, heap>>

AddCommentFetch(t, resp) ==
    /\ pc[t] = "ac_fetch"
    /\ call' = [call EXCEPT ![t] =
                  Mutated(call[t], BodyRequest("POST", <<"comments", call[t].recv.id>>, token,
                                               CreateCommentToTaskRequest(call[t].arg.want)), resp)]
    /\ pc' = [pc EXCEPT ![t] = "done"]
    /\ UNCHANGED <<now, takes, token, modelCacheLock, modelCacheMap, nextInst, heap>>

\* ---- Neaktor.RefreshToken (part_001:292-338): no Take(), no lock.

AccessTokens == {"", "abc"}
TokenResponses ==
    {TransportFailure}
    \cup {Undecodable(s) : s \in MutationStatuses}
    \cup {Decoded(s, c, [AccessToken |-> a]) : s \in MutationStatuses, c \in MutationCodes, a \in AccessTokens}

\* The form of the token exchange (part_001:304-309).
OauthForm(clientId, clientSecret, refreshToken) ==
    << <<"grant_type", "refresh_token">>, <<"redirect_uri", "https://redirectUri.com">>,
       <<"client_id", clientId>>, <<"client_secret", clientSecret>>, <<"refresh_token", refreshToken>> >>

\* A handling that classifies the wire code and goes on without returning the error.
RefreshTokenDiscarding(tok, resp) ==
    IF resp.fail THEN [token |-> tok, err |-> Bare("TransportError")]
    ELSE IF resp.status >= 500 THEN [token |-> tok, err |-> Bare("ServiceUnavailable")]
    ELSE IF ~resp.decodable THEN [token |-> tok, err |-> Bare("UnmarshalError")]
    ELSE IF Len(resp.data.AccessToken) <= 0 THEN [token |-> tok, err |-> Bare("ErrApiTokenIncorrect")]
    ELSE [token |-> "Bearer " \o resp.data.AccessToken, err |-> NilErr]

\* A handling that stores the token before it tests it.
RefreshTokenStoring(tok, resp) ==
    IF resp.fail THEN [token |-> tok, err |-> Bare("TransportError")]
    ELSE IF resp.status >= 500 THEN [token |-> tok, err |-> Bare("ServiceUnavailable")]
    ELSE IF ~resp.decodable THEN [token |-> tok, err |-> Bare("UnmarshalError")]
    ELSE IF Len(resp.code) > 0 THEN [token |-> tok, err |-> parseErrorCode(resp.code, resp.message)]
    ELSE IF Len(resp.data.AccessToken) <= 0
    THEN [token |-> "Bearer " \o resp.data.AccessToken, err |-> Bare("ErrApiTokenIncorrect")]
    ELSE [token |-> "Bearer " \o resp.data.AccessToken, err |-> NilErr]

\* The token the client holds after the response, and the error returned
\* (part_001:311-337).
RefreshTokenResult(tok, resp) ==
    IF resp.fail THEN [token |-> tok, err |-> Bare("TransportError")]
    ELSE IF resp.status >= 500 THEN [token |-> tok, err |-> Bare("ServiceUnavailable")]
    ELSE IF ~resp.decodable THEN [token |-> tok, err |-> Bare("UnmarshalError")]
    ELSE IF Len(resp.code) > 0 THEN [token |-> tok, err |-> parseErrorCode(resp.code, resp.message)]
    ELSE IF Len(resp.data.AccessToken) <= 0 THEN [token |-> tok, err |-> Bare("ErrApiTokenIncorrect")]
    ELSE [token |-> "Bearer " \o resp.data.AccessToken, err |-> NilErr]

RefreshTokenCall(t, clientId, clientSecret, refreshToken) ==
    /\ Enter(t, NewCall("RefreshToken", NilModel, "oauth", OauthForm(clientId, clientSecret, refreshToken), <<>>),
             "rt_fetch")
    /\ UNCHANGED <<now, takes, token, modelCacheLock, modelCacheMap, nextInst, heap>>

RefreshTokenFetch(t, resp) ==
    LET result == RefreshTokenResult(token, resp)
    IN
    /\ pc[t] = "rt_fetch"
    /\ call' = [call EXCEPT ![t] =
                  [call[t] EXCEPT
                      !.reqs = Append(@, BodyRequest("POST", <<"oauth", "token">>, "", call[t].arg.want)),
                      !.fetchAt = now,
                      !.rx = Digest(resp, ~resp.fail /\ resp.decodable /\ Len(resp.code) > 0, {}),
                      !.resp = <<resp>>,
                      !.had = <<token>>,
                      !.left = IF result.token # token THEN <<result.token>> ELSE <<>>,
                      !.err = result.err]]
    /\ pc' = [pc EXCEPT ![t] = IF result.token # token THEN "rt_store" ELSE "done"]
    /\ UNCHANGED <<now, takes, token, modelCacheLock, modelCacheMap, nextInst, heap>>

\* n.token = "Bearer " + oauthTokenResponse.AccessToken, and the return (part_001:335-337).
RefreshTokenStore(t) ==
    /\ pc[t] = "rt_store"
    /\ token' = call[t].left[1]
    /\ pc' = [pc EXCEPT ![t] = "done"]
    /\ UNCHANGED <<now, takes, modelCacheLock, modelCacheMap, nextInst, heap, call>>

\* ---- Model.GetTaskById (neaktor_model.go:1644-1733)

\* GET /tasks/{id}: an array of tasks. TaskResponse has no code: an element that is
\* an error envelope decodes to the zero task.
TaskResponse(code, id, rawStatus, start) ==
    [ Code |-> code, Id |-> id, Idx |-> id, Status |-> rawStatus,
      Fields |-> IF start = "" THEN <<>> ELSE <<[Id |-> DateStart, Value |-> <<start>>, State |-> "ACTIVE"]>> ]
AskedIds == {7}
TaskResponseElems ==
    { TaskResponse(<<>>, 7, StatusNew.Id, GoodDate), TaskResponse(<<>>, 7, StatusNew.Id, BadDate),
      TaskResponse(<<>>, 7, StatusNew.Id, NumberValue),
      TaskResponse(<<>>, 8, StatusDone.Id, GoodDate), TaskResponse(ErrCode404, 0, <<>>, "") }
TaskByIdResponses ==
    {TransportFailure}
    \cup {Undecodable(s) : s \in HttpStatuses}
    \cup {Decoded(s, <<>>, d) : s \in HttpStatuses, d \in SeqsUpTo(TaskResponseElems, MaxElems)}

\* The status of the Model whose id is the task's raw status (neaktor_model.go:1721-1727).
ResolveStatusById(m, raw) ==
    LET hits == {id \in DOMAIN m.statuses : m.statuses[id].Id = raw}
    IN IF hits = {} THEN ZeroStatus ELSE m.statuses[CHOOSE id \in hits : TRUE]

BuildTaskById(m, taskData) ==
    NewTask(m, ResolveStatusById(m, taskData.Status), taskData.Id, taskData.Idx,
            DateOf(taskData, DateStart), DateOf(taskData, DateEnd), DateOf(taskData, DateStatusClosed),
            [j \in 1..Len(taskData.Fields) |->
                [ ModelField |-> IF taskData.Fields[j].Id \in DOMAIN m.fields
                                 THEN m.fields[taskData.Fields[j].Id]
                                 ELSE [Id |-> <<>>, Name |-> <<>>, State |-> ""],
                  Value |-> taskData.Fields[j].Value, State |-> taskData.Fields[j].State ]])

\* A loop that returns the task of the last element.
LastTask(data) == data[Len(data)]

\* The loop over the response returns in its first iteration (neaktor_model.go:1686, 1729).
FirstTask(data) == data[1]

GetTaskByIdCall(t, m, id) ==
    /\ Enter(t, NewCall("GetTaskById", m, id, <<>>, <<>>), "tb_take")
    /\ UNCHANGED <<now, takes, token, modelCacheLock, modelCacheMap, nextInst, heap>>

\* m.neaktor.apiLimiter.Take() (neaktor_model.go:1666)
GetTaskByIdTake(t) ==
    /\ pc[t] = "tb_take"
    /\ takes' = takes + 1
    /\ call' = [call EXCEPT ![t].takes = @ + 1]
    /\ pc' = [pc EXCEPT ![t] = "tb_fetch"]
    /\ UNCHANGED <<now, token, modelCacheLock, modelCacheMap, nextInst, heap>>

\* The request and the handling of its response (neaktor_model.go:1668-1732): no
\* test of the status, none of a wire code; a date field that is not a string ends
\* the goroutine in a panic: the call does not return.
GetTaskByIdFetch(t, resp) ==
    LET m == call[t].recv
        c == [call[t] EXCEPT
                !.reqs = Append(@, Request("GET", <<"tasks", call[t].arg.key>>, token)),
                !.fetchAt = now,
                !.rx = Digest(resp, ~resp.fail /\ resp.decodable /\ ArrayCoded(resp), {}),
                !.resp = <<resp>>]
        panics == ~resp.fail /\ resp.decodable /\ Len(resp.data) > 0 /\ Panics(FirstTask(resp.data))
    IN
    /\ pc[t] = "tb_fetch"
    /\ call' = [call EXCEPT ![t] =
                  IF resp.fail THEN [c EXCEPT !.err = Bare("TransportError")]
                  ELSE IF ~resp.decodable THEN [c EXCEPT !.err = Bare("UnmarshalError")]
                  ELSE IF Len(resp.data) = 0 THEN [c EXCEPT !.err = Bare("ErrTaskNotFound")]
                  ELSE IF panics THEN c
                  ELSE IF Malformed(FirstTask(resp.data)) THEN [c EXCEPT !.err = Bare("TimeParseError")]
                  ELSE [c EXCEPT !.ret = <<BuildTaskById(m, FirstTask(resp.data))>>]]
    /\ pc' = [pc EXCEPT ![t] = IF panics THEN "panic" ELSE "done"]
    /\ UNCHANGED <<now, takes, token, modelCacheLock, modelCacheMap, nextInst, heap>>

\* ---- The client, ModelA and one of its tasks; one thread calls an operation.

Comments == {"", "emailTaskField value fixed"}

NextTask ==
    \/ \E fields \in TaskFields : UpdateFieldsCall("t1", TheTask, fields)
    \/ UpdateFieldsTake("t1")
    \/ \E resp \in MutationResponses : UpdateFieldsFetch("t1", resp)
    \/ \E status \in AskedStatuses : UpdateStatusCall("t1", TheTask, status)
    \/ UpdateStatusTake("t1")
    \/ \E resp \in MutationResponses : UpdateStatusFetch("t1", resp)
    \/ \E message \in Comments : AddCommentCall("t1", TheTask, message)
    \/ \E resp \in MutationResponses : AddCommentFetch("t1", resp)
    \/ RefreshTokenCall("t1", "client", "secret", "r1e2f3")
    \/ \E resp \in TokenResponses : RefreshTokenFetch("t1", resp)
    \/ RefreshTokenStore("t1")
    \/ \E m \in Models, id \in AskedIds : GetTaskByIdCall("t1", m, id)
    \/ GetTaskByIdTake("t1")
    \/ \E resp \in TaskByIdResponses : GetTaskByIdFetch("t1", resp)

SpecTask == InitLookup /\ [][NextTask]_vars

----------------------------------------------------------------------------
\* Properties of GetTaskById, the mutations and RefreshToken.

MutationOps == {"UpdateFields", "UpdateStatus", "AddComment"}

\* t's call of one of ops has returned, and r is the response its request got.
Got(t, ops) == call[t].op \in ops /\ Returned(t) /\ Len(call[t].resp) = 1
BodyDecoded(r) == ~r.fail /\ r.decodable
DatesParse(elem) == \A j \in 1..Len(elem.Fields) : elem.Fields[j].Value = <<GoodDate>>

Member(object, key) ==
    LET at == {k \in 1..Len(object) : object[k][1] = key}
    IN IF at = {} THEN <<>> ELSE object[CHOOSE k \in at : TRUE][2]

C15_PayloadListsEveryField ==
    \A t \in Threads :
        call[t].op = "UpdateFields" /\ Requests(t) > 0
        => LET request == call[t].reqs[1]
               fields == call[t].arg.want
               listed == Member(request.body, "fields")
           IN /\ request.method = "PUT"
              /\ request.path = <<"tasks", call[t].recv.id>>
              /\ Len(listed) = Len(fields)
              /\ \A i \in 1..Len(fields) :
                    listed[i] = << <<"id", fields[i].ModelField.Id>>, <<"value", fields[i].Value>> >>

\* C16: UpdateFields, UpdateStatus and AddComment leave the Task they are called on
\* as it was, from the call to the return and whatever the outcome; and an
\* UpdateFields answered with the wire code "404" returns the error that wraps
\* ErrCode404, the Task's fields being as before.
C16_MutationsLeaveTheTask ==
    \A t \in Threads :
        /\ call[t].op \in MutationOps => call[t].recv = TheTask
        /\ Got(t, {"UpdateFields"}) /\ BodyDecoded(call[t].resp[1])
              /\ call[t].resp[1].status < 500 /\ call[t].resp[1].code = <<"4","0","4">>
           => /\ call[t].err = Wrap("ErrCode404", call[t].resp[1].message)
              /\ call[t].recv.fields = TheTask.fields

C16_Witness ==
    \E t \in Threads :
        /\ Got(t, {"UpdateFields"}) /\ call[t].resp[1] = Decoded(404, <<"4","0","4">>, <<>>)
        /\ call[t].arg.want = <<TaskField(FieldEmail, Str(""))>>
        /\ call[t].err = Wrap("ErrCode404", "msg") /\ call[t].recv = TheTask

\* C17: each of UpdateFields, UpdateStatus and AddComment returns, on a response
\* with a status of 500 or more, a service-unavailable error whatever the body;
\* otherwise, on a body that does not decode, an unmarshalling error; otherwise, on
\* a non-empty wire code, parseErrorCode(code, message); otherwise nil. A request
\* that got no response returns the transport's error.
C17_MutationResponseContract ==
    \A t \in Threads :
        Got(t, MutationOps)
        => LET r == call[t].resp[1]
           IN call[t].err =
                IF r.fail THEN Bare("TransportError")
                ELSE IF r.status >= 500 THEN Bare("ServiceUnavailable")
                ELSE IF ~r.decodable THEN Bare("UnmarshalError")
                ELSE IF r.code # <<>> THEN parseErrorCode(r.code, r.message)
                ELSE NilErr

C17_Witness ==
    \E t \in Threads :
        /\ Got(t, {"AddComment"}) /\ call[t].resp[1] = Decoded(500, <<"4","0","4">>, <<>>)
        /\ call[t].err = Bare("ServiceUnavailable")

\* C17 as it was stated: service-unavailable on a status of 500 or more; otherwise
\* parseErrorCode on a decodable body with a wire code; otherwise nil.
C17_AsStated ==
    \A t \in Threads :
        Got(t, MutationOps) /\ ~call[t].resp[1].fail
        => LET r == call[t].resp[1]
           IN call[t].err =
                IF r.status >= 500 THEN Bare("ServiceUnavailable")
                ELSE IF r.decodable /\ r.code # <<>> THEN parseErrorCode(r.code, r.message)
                ELSE NilErr

\* A token response is a success: it came, below 500, decodable, without a wire
\* code, with an access token.
TokenGranted(r) ==
    /\ ~r.fail /\ r.status < 500 /\ r.decodable
    /\ r.code = <<>> /\ r.data.AccessToken # ""

\* C18: RefreshToken changes the client's token only on success, to "Bearer "
\* followed by the access token; on every failure it returns an error and the
\* token is the one held before; and an empty access token without a wire code
\* fails with ErrApiTokenIncorrect.
C18_TokenChangesOnlyOnSuccess ==
    \A t \in Threads :
        Got(t, {"RefreshToken"})
        => LET r == call[t].resp[1]
               before == call[t].had[1]
           IN /\ TokenGranted(r) => call[t].err = NilErr /\ token = "Bearer " \o r.data.AccessToken
              /\ ~TokenGranted(r) => call[t].err # NilErr /\ token = before
              /\ BodyDecoded(r) /\ r.status < 500 /\ r.code = <<>> /\ r.data.AccessToken = ""
                    => call[t].err = Bare("ErrApiTokenIncorrect")

C18_Witness ==
    \E t \in Threads :
        /\ Got(t, {"RefreshToken"}) /\ call[t].resp[1] = Decoded(200, <<>>, [AccessToken |-> ""])
        /\ call[t].err = Bare("ErrApiTokenIncorrect") /\ token = call[t].had[1]

\* C19: RefreshToken, on a response below 500 whose body carries a non-empty wire
\* code, returns the error of parseErrorCode and stores no token, also when the
\* body carries an access token.
C19_WireCodeStopsTheRefresh ==
    \A t \in Threads :
        Got(t, {"RefreshToken"}) /\ BodyDecoded(call[t].resp[1])
            /\ call[t].resp[1].status < 500 /\ call[t].resp[1].code # <<>>
        => /\ call[t].err = parseErrorCode(call[t].resp[1].code, call[t].resp[1].message)
           /\ token = call[t].had[1]

C19_Witness ==
    \E t \in Threads :
        /\ Got(t, {"RefreshToken"}) /\ call[t].resp[1] = Decoded(200, <<"4","0","4">>, [AccessToken |-> "abc"])
        /\ call[t].err = Wrap("ErrCode404", "msg") /\ token = call[t].had[1]

\* C20: a response that carries a non-empty wire code, in its body or in an
\* element of its array, is never taken for a success: the call returns an error
\* and leaves no entry written from it in a cache.
C20_WireCodeIsNeverSuccess ==
    \A t \in Threads :
        Answered(t) /\ call[t].rx.coded
        => /\ call[t].err # NilErr
           /\ IsLookup(t) => call[t].left = <<>>

----------------------------------------------------------------------------
\* Model.GetStatus and Model.GetField (neaktor_model.go:924-942), called by a thread
\* on a Model that a GetModelByTitle of the other thread returned.

\* The titles asked for: names of the listing in another letter case, and one that
\* no listing has.
AskedTitles ==
    { <<"n","e","w">>, <<"D","O","N","E">>, <<"e","M","A","I","L">>, <<"S","t","a","r","t">>,
      <<"n","o","n","e">> }

ZeroField == [Id |-> <<>>, Name |-> <<>>, State |-> ""]

\* A lookup that takes the title for the key of the map.
ByKey(entries, title) == IF title \in DOMAIN entries THEN {entries[title]} ELSE {}

\* The entries a range loop over the map can return: Go ranges over a map in no
\* fixed order, so any entry whose Name folds to the title may be the one returned.
ByTitle(entries, title) ==
    {entries[k] : k \in {x \in DOMAIN entries : EqualFold(entries[x].Name, title)}}

\* The Models that callers hold: the results of the GetModelByTitle calls.
ModelsGot ==
    {call[u].ret : u \in {x \in Threads : /\ pc[x] = "done" /\ call[x].op = "GetModelByTitle"
                                          /\ call[x].err = NilErr}}

\* m.GetStatus(title) (neaktor_model.go:924-932)
GetStatus(t, m, title) ==
    LET hits == ByTitle(m.statuses, title) IN
    /\ pc[t] = "idle"
    /\ m \in ModelsGot
    /\ \E status \in IF hits = {} THEN {ZeroStatus} ELSE hits :
            call' = [call EXCEPT ![t] =
                        [NewCall("GetStatus", m, title, "", status) EXCEPT
                            !.prior = {u \in Threads : pc[u] = "done"},
                            !.err = IF hits = {} THEN Bare("ErrModelStatusNotFound") ELSE NilErr]]
    /\ pc' = [pc EXCEPT ![t] = "done"]
    /\ UNCHANGED <<now, takes, token, modelCacheLock, modelCacheMap, nextInst, heap>>

\* m.GetField(title) (neaktor_model.go:934-942)
GetField(t, m, title) ==
    LET hits == ByTitle(m.fields, title) IN
    /\ pc[t] = "idle"
    /\ m \in ModelsGot
    /\ \E field \in IF hits = {} THEN {ZeroField} ELSE hits :
            call' = [call EXCEPT ![t] =
                        [NewCall("GetField", m, title, "", field) EXCEPT
                            !.prior = {u \in Threads : pc[u] = "done"},
                            !.err = IF hits = {} THEN Bare("ErrModelFieldNotFound") ELSE NilErr]]
    /\ pc' = [pc EXCEPT ![t] = "done"]
    /\ UNCHANGED <<now, takes, token, modelCacheLock, modelCacheMap, nextInst, heap>>

NextModel ==
    \/ Next
    \/ \E t \in Threads, m \in ModelsGot, title \in AskedTitles : GetStatus(t, m, title)
    \/ \E t \in Threads, m \in ModelsGot, title \in AskedTitles : GetField(t, m, title)

SpecModel == Init /\ [][NextModel]_vars

\* The elements of a list, and the listing item a Model was built from.
Elems(list) == {list[i] : i \in 1..Len(list)}
ItemOf(m) == CHOOSE item \in ListingItems : item.Id = m.id

\* C21: on a Model that GetModelByTitle built from a listing item, GetStatus(t)
\* returns without error a status of that item whose name is t under case folding,
\* with the id, closed flag and type the listing gave it, whenever the item has such
\* a status, and fails with ErrModelStatusNotFound when it has none; GetField(t) does
\* the same over the item's fields, failing with ErrModelFieldNotFound.
C21_StatusAndFieldByFoldedName ==
    \A t \in Threads :
        /\ (Returned(t) /\ call[t].op = "GetStatus")
           => LET named == {s \in Elems(ItemOf(call[t].recv).Statuses) :
                                Lowered(s.Name) = Lowered(call[t].arg.key)}
              IN IF named # {}
                 THEN call[t].err = NilErr /\ call[t].ret \in named
                 ELSE call[t].err = Bare("ErrModelStatusNotFound")
        /\ (Returned(t) /\ call[t].op = "GetField")
           => LET named == {f \in Elems(ItemOf(call[t].recv).Fields) :
                                Lowered(f.Name) = Lowered(call[t].arg.key)}
              IN IF named # {}
                 THEN call[t].err = NilErr /\ call[t].ret \in named
                 ELSE call[t].err = Bare("ErrModelFieldNotFound")

C21_Witness ==
    \E t, u \in Threads :
        /\ Returned(t) /\ call[t].op = "GetStatus" /\ call[t].arg.key = <<"n","e","w">>
        /\ call[t].ret = StatusNew /\ call[t].err = NilErr
        /\ call[u].op = "GetModelByTitle" /\ call[u].src = "refresh" /\ call[u].ret = call[t].recv

----------------------------------------------------------------------------
\* The lookups of a Model: the custom-field and assignee caches.

ModelLookupOps == {"GetCustomFieldOptionId", "GetCustomFieldValue", "GetAssignee"}

\* C22: a GetCustomFieldOptionId, GetCustomFieldValue or GetAssignee call that finds
\* under its key an entry less than 30 minutes old issues no request, whatever value,
\* option id or name it asks for, one that the entry does not hold included.
C22_LiveEntryMeansNoRequest ==
    \A t \in Threads :
        call[t].op \in ModelLookupOps /\ FoundLive(t) => ~Refreshing(t) /\ Requests(t) = 0

\* The routing entry of a response that a refresh leaves under a target: the last
\* one with that target; and its assignees as the cache holds them.
Targets(data) == {data[i].To : i \in 1..Len(data)}
RoutingTo(data, target) ==
    data[CHOOSE i \in 1..Len(data) : data[i].To = target /\ \A j \in (i + 1)..Len(data) : data[j].To # target]
AssigneesOf(routing) ==
    [j \in 1..Len(routing.Assignees) |->
        ModelAssignee(routing.Assignees[j].Id, routing.Assignees[j].Name, routing.Assignees[j].Type)]

\* t's GetAssignee call has refreshed the cache from a decoded response; and the
\* decoded responses that list the targets which that response listed (in the
\* service of this model the target of a routing determines its assignees).
AssigneeRefreshed(t) ==
    /\ call[t].op = "GetAssignee" /\ Returned(t) /\ Requests(t) = 1
    /\ ~call[t].rx.fail /\ call[t].rx.decodable
Routed(t) == {resp \in RoutingResponses : BodyDecoded(resp) /\ Targets(resp.data) = call[t].rx.keys}

C24_ValueOfOptionIdRoundTrip ==
    \A t, u \in Threads :
        ( /\ call[t].op = "GetCustomFieldOptionId" /\ Returned(t) /\ call[t].err = NilErr
          /\ call[u].op = "GetCustomFieldValue" /\ After(u, t) /\ Checked(u)
          /\ call[u].recv = call[t].recv /\ call[u].arg.key = call[t].arg.key
          /\ call[u].arg.want = call[t].ret
          /\ LiveAt(call[u].checkAt, call[t].stamp) )
        => /\ Returned(u) /\ Requests(u) = 0 /\ call[u].err = NilErr
           /\ call[u].ret = call[t].arg.want
           /\ call[u].src = "cache" /\ call[u].had = call[t].left

C24_Witness ==
    \E t, u \in Threads :
        /\ call[t].op = "GetCustomFieldOptionId" /\ Returned(t) /\ Requests(t) = 1
        /\ call[t].arg.want = "red" /\ call[t].ret = "o2"
        /\ call[u].op = "GetCustomFieldValue" /\ After(u, t) /\ Returned(u)
        /\ call[u].arg.want = "o2" /\ call[u].checkAt > call[t].fetchAt
        /\ Requests(u) = 0 /\ call[u].ret = "red"

----------------------------------------------------------------------------
\* Model.GetTasksByStatuses (neaktor_model.go:1347-1358): one GetTasksByStatus per
\* status. The call it makes runs as the thread's current call, with the waiting
\* call as its caller, and comes back to it when it returns.

\* The status lists asked for, and the numbers of tasks the service has per status.
StatusLists == SeqsUpTo(AskedStatuses, 2)
StatusTotals == {0, 1, PageLimit + 1}

\* tasks = append(tasks, tasksByStatus...), and a deviation that puts the new ones first.
Prepend(tasks, tasksByStatus) == tasksByStatus \o tasks
Concat(tasks, tasksByStatus) == tasks \o tasksByStatus

\* A call that another call makes: it returns to its caller.
Nested(t) == Len(call[t].caller) = 1

\* The raw status of the tasks the service lists for the status a listing asks for.
QueriedStatus(t) ==
    IF pc[t] \in {"ts_take", "ts_fetch"} THEN RawStatus(call[t].recv.statuses[call[t].arg.key]) ELSE <<>>

\* GetTasksByStatuses is entered; want is the index of the range loop.
GetTasksByStatusesCall(t, m, statuses) ==
    /\ Enter(t, NewCall("GetTasksByStatuses", m, statuses, 1, <<>>), "tss_loop")
    /\ UNCHANGED <<now, takes, token, modelCacheLock, modelCacheMap, nextInst, heap>>

\* for _, status := range statuses { tasksByStatus, err := m.GetTasksByStatus(status)
\* (neaktor_model.go:1348-1349), and return tasks, err after the loop (1357).
GetTasksByStatusesLoop(t, total) ==
    LET c == call[t]
        statuses == c.arg.key
        i == c.arg.want
    IN
    /\ pc[t] = "tss_loop"
    /\ IF i > Len(statuses)
       THEN /\ pc' = [pc EXCEPT ![t] = "done"]
            /\ UNCHANGED call
       ELSE /\ call' = [call EXCEPT ![t] =
                            [NewCall("GetTasksByStatus", c.recv, statuses[i].Id, <<>>, <<>>) EXCEPT
                                !.total = total, !.maxPages = 1, !.prior = c.prior, !.caller = <<c>>]]
            /\ pc' = [pc EXCEPT ![t] = "ts_take"]
    /\ UNCHANGED <<now, takes, token, modelCacheLock, modelCacheMap, nextInst, heap>>

\* GetTasksByStatus has returned to GetTasksByStatuses: if err != nil { return tasks,
\* err }; tasks = append(tasks, tasksByStatus...) (neaktor_model.go:1350-1354).
GetTasksByStatusesReturn(t) ==
    LET sub == call[t]
        c == [sub.caller[1] EXCEPT !.subs = Append(@, [sub EXCEPT !.caller = <<>>]),
                                   !.reqs = @ \o sub.reqs, !.takes = @ + sub.takes]
    IN
    /\ pc[t] = "done" /\ Nested(t) /\ sub.caller[1].op = "GetTasksByStatuses"
    /\ IF sub.err # NilErr
       THEN /\ call' = [call EXCEPT ![t] = [c EXCEPT !.err = sub.err]]
            /\ pc' = [pc EXCEPT ![t] = "done"]
       ELSE /\ call' = [call EXCEPT ![t] = [c EXCEPT !.ret = Concat(@, sub.ret), !.arg.want = @ + 1]]
            /\ pc' = [pc EXCEPT ![t] = "tss_loop"]
    /\ UNCHANGED <<now, takes, token, modelCacheLock, modelCacheMap, nextInst, heap>>

\* ---- Task.GetField (part_002:94-102), called by the other thread on a task that
\* the listing returned.

\* The last field of the task with the id, where the loop returns the first.
TaskFieldLast(fields, modelField) ==
    LET hits == {i \in 1..Len(fields) : fields[i].ModelField.Id = modelField.Id}
    IN IF hits = {} THEN <<>> ELSE <<fields[CHOOSE i \in hits : \A j \in hits : j <= i]>>

\* for _, field := range t.fields { if field.ModelField.Id == modelField.Id { return field, err } }
TaskFieldById(fields, modelField) ==
    LET hits == {i \in 1..Len(fields) : fields[i].ModelField.Id = modelField.Id}
    IN IF hits = {} THEN <<>> ELSE <<fields[FirstIndex(hits)]>>

ZeroTaskField == [ModelField |-> ZeroField, Value |-> <<>>, State |-> ""]

\* The tasks a caller calls GetField on: the first two and the last of the listing;
\* and the fields asked for: those of the Model, and one it does not have.
TasksListed ==
    LET tasks == IF pc["t1"] = "done" /\ call["t1"].op = "GetTasksByStatuses" THEN call["t1"].ret ELSE <<>>
    IN {tasks[i] : i \in {1, 2, Len(tasks)} \cap 1..Len(tasks)}
FieldPhone == [Id |-> <<"f","9">>, Name |-> <<"P","h","o","n","e">>, State |-> "active"]
AskedModelFields == {FieldEmail, FieldStart, FieldPhone}

TaskGetField(t, task, modelField) ==
    LET found == TaskFieldById(task.fields, modelField) IN
    /\ pc[t] = "idle" /\ t # "t1"
    /\ task \in TasksListed
    /\ call' = [call EXCEPT ![t] =
                    [NewCall("Task.GetField", task, modelField, "", IF Len(found) > 0 THEN found[1] ELSE ZeroTaskField)
                        EXCEPT !.prior = {u \in Threads : pc[u] = "done"},
                               !.err = IF Len(found) > 0 THEN NilErr ELSE Bare("ErrTaskFieldNotFound")]]
    /\ pc' = [pc EXCEPT ![t] = "done"]
    /\ UNCHANGED <<now, takes, token, modelCacheLock, modelCacheMap, nextInst, heap>>

NextStatuses ==
    \/ \E m \in Models, statuses \in StatusLists : GetTasksByStatusesCall("t1", m, statuses)
    \/ \E total \in StatusTotals : GetTasksByStatusesLoop("t1", total)
    \/ GetTasksByStatusTake("t1")
    \/ \E resp \in PageResponses(call["t1"].total, call["t1"].page, QueriedStatus("t1")) :
            GetTasksByStatusFetch("t1", resp)
    \/ GetTasksByStatusesReturn("t1")
    \/ \E task \in TasksListed, modelField \in AskedModelFields : TaskGetField("t2", task, modelField)

SpecStatuses == InitLookup /\ [][NextStatuses]_vars

\* t's GetTasksByStatuses call has returned.
ListedByStatuses(t) == call[t].op = "GetTasksByStatuses" /\ Returned(t)

\* The tasks, and the requests, of the first n calls that a call made, in order.
RECURSIVE TasksOf(_, _)
TasksOf(subs, n) == IF n = 0 THEN <<>> ELSE TasksOf(subs, n - 1) \o subs[n].ret
RECURSIVE RequestsOf(_, _)
RequestsOf(subs, n) == IF n = 0 THEN <<>> ELSE RequestsOf(subs, n - 1) \o subs[n].reqs

\* The statuses are queried in input order, one GetTasksByStatus each, and none
\* after one that failed; the requests of the call are those of these queries.
QueriedInOrder(t) ==
    LET statuses == call[t].arg.key
        subs == call[t].subs
    IN /\ Len(subs) <= Len(statuses)
       /\ \A i \in 1..Len(subs) :
            /\ subs[i].op = "GetTasksByStatus" /\ subs[i].arg.key = statuses[i].Id
            /\ \A j \in 1..Len(subs[i].reqs) : subs[i].reqs[j].path.status_id = statuses[i].Id
            /\ i < Len(subs) => subs[i].err = NilErr
       /\ call[t].reqs = RequestsOf(subs, Len(subs))

QueryFailed(t) == Len(call[t].subs) > 0 /\ call[t].subs[Len(call[t].subs)].err # NilErr

\* C25: GetTasksByStatuses(statuses) queries the statuses in input order. When no
\* query fails it has queried every status and returns, without error, the
\* concatenation of the per-status results in that order. When a query fails no
\* later status is queried and the call returns that error, together with the tasks
\* of the statuses queried before the failing one and none of the failing one.
C25_StatusesQueriedInOrder ==
    \A t \in Threads :
        ListedByStatuses(t)
        => LET subs == call[t].subs IN
           /\ QueriedInOrder(t)
           /\ IF QueryFailed(t)
              THEN /\ call[t].err = subs[Len(subs)].err
                   /\ call[t].ret = TasksOf(subs, Len(subs) - 1)
              ELSE /\ Len(subs) = Len(call[t].arg.key)
                   /\ call[t].err = NilErr
                   /\ call[t].ret = TasksOf(subs, Len(subs))

C25_Witness ==
    \E t \in Threads :
        /\ ListedByStatuses(t) /\ call[t].arg.key = <<StatusDone, StatusNew>>
        /\ call[t].err = NilErr /\ Len(call[t].subs) = 2 /\ Len(call[t].reqs) = 3
        /\ Len(call[t].ret) = PageLimit + 2
        /\ call[t].ret[1].status = StatusDone /\ call[t].ret[PageLimit + 2].status = StatusNew

\* C25 as it was stated: when the query of some status fails, the call returns that
\* error with no tasks.
C25_AsStated ==
    \A t \in Threads :
        ListedByStatuses(t)
        => /\ QueriedInOrder(t)
           /\ IF QueryFailed(t)
              THEN call[t].err = call[t].subs[Len(call[t].subs)].err /\ call[t].ret = <<>>
              ELSE /\ Len(call[t].subs) = Len(call[t].arg.key)
                   /\ call[t].err = NilErr
                   /\ call[t].ret = TasksOf(call[t].subs, Len(call[t].subs))

----------------------------------------------------------------------------
\* C26, in GetTaskById: when the task of the response has a non-null value under
\* the field id "start", "end" or "statusClosedDate" that is not a date in the form
\* DD-MM-YYYYTHH:MM:SS, the call returns an error and no task, after its one request.
C26_MalformedDateFailsTheCall ==
    \A t \in Threads :
        ( /\ call[t].op = "GetTaskById" /\ Len(call[t].resp) = 1
          /\ BodyDecoded(call[t].resp[1]) /\ Len(call[t].resp[1].data) > 0
          /\ DateFaults(FirstTask(call[t].resp[1].data)) # {} )
        => Returned(t) /\ call[t].err # NilErr /\ call[t].ret = <<>> /\ Requests(t) = 1

----------------------------------------------------------------------------
\* Model.CreateTask (neaktor_model.go:1735-1805): a POST, then GetTaskById on the id
\* of the creation response.

\* CreateTaskRequest{Assignee{Id, Type}, Fields[]{Id, Value}}: assignee and fields
\* are always sent, their members are omitempty (neaktor_model.go:1736-1749, 1763-1776).
CreateTaskRequest(assignee, fields) ==
    Marshal(<< StructField("assignee", "struct", FALSE,
                    Marshal(<< StructField("id", "int", TRUE, assignee.id),
                               StructField("type", "text", TRUE, assignee.typeOf) >>)),
               StructField("fields", "slice", FALSE,
                    [i \in 1..Len(fields) |->
                        Marshal(<< StructField("id", "string", TRUE, fields[i].ModelField.Id),
                                   StructField("value", "interface", TRUE, fields[i].Value) >>)]) >>)

\* What CreateTask is asked with, and what the service may answer to the POST:
\* {code, message, id}.
CreateAssignees == {ModelAssignee(1, "ann", "USER"), NilAssignee}
CreateFields == {<<>>, <<TaskField(FieldEmail, Str("a@b.c"))>>}
CreatedIds == {7, 8}
CreateTaskResponses ==
    {TransportFailure}
    \cup {Undecodable(s) : s \in MutationStatuses}
    \cup {Decoded(s, c, [Id |-> id]) : s \in MutationStatuses, c \in MutationCodes, id \in CreatedIds}

\* A handling of the creation response that does not look at the wire code.
CreateTaskErrorUncoded(resp) ==
    IF resp.fail THEN Bare("TransportError")
    ELSE IF ~resp.decodable THEN Bare("UnmarshalError")
    ELSE NilErr

\* The error CreateTask returns on the creation response, if any
\* (neaktor_model.go:1787-1800): the status is not looked at.
CreateTaskError(resp) ==
    IF resp.fail THEN Bare("TransportError")
    ELSE IF ~resp.decodable THEN Bare("UnmarshalError")
    ELSE IF Len(resp.code) > 0 THEN parseErrorCode(resp.code, resp.message)
    ELSE NilErr

CreateTaskCall(t, m, assignee, fields) ==
    /\ Enter(t, NewCall("CreateTask", m, assignee, fields, <<>>), "ct_take")
    /\ UNCHANGED <<now, takes, token, modelCacheLock, modelCacheMap, nextInst, heap>>

\* m.neaktor.apiLimiter.Take() (neaktor_model.go:1759)
CreateTaskTake(t) ==
    /\ pc[t] = "ct_take"
    /\ takes' = takes + 1
    /\ call' = [call EXCEPT ![t].takes = @ + 1]
    /\ pc' = [pc EXCEPT ![t] = "ct_fetch"]
    /\ UNCHANGED <<now, token, modelCacheLock, modelCacheMap, nextInst, heap>>

\* The payload, the POST and the handling of its response, down to the call of
\* m.GetTaskById(createTaskResponse.Id) (neaktor_model.go:1761-1804).
CreateTaskFetch(t, resp) ==
    LET m == call[t].recv
        c == [call[t] EXCEPT
                !.reqs = Append(@, BodyRequest("POST", <<"tasks", m.id>>, token,
                                               CreateTaskRequest(call[t].arg.key, call[t].arg.want))),
                !.fetchAt = now,
                !.rx = Digest(resp, ~resp.fail /\ resp.decodable /\ Len(resp.code) > 0, {}),
                !.resp = <<resp>>,
                !.err = CreateTaskError(resp)]
    IN
    /\ pc[t] = "ct_fetch"
    /\ IF c.err # NilErr
       THEN /\ call' = [call EXCEPT ![t] = c]
            /\ pc' = [pc EXCEPT ![t] = "done"]
       ELSE /\ call' = [call EXCEPT ![t] =
                            [NewCall("GetTaskById", m, resp.data.Id, <<>>, <<>>) EXCEPT
                                !.prior = c.prior, !.caller = <<c>>]]
            /\ pc' = [pc EXCEPT ![t] = "tb_take"]
    /\ UNCHANGED <<now, takes, token, modelCacheLock, modelCacheMap, nextInst, heap>>

\* GetTaskById has returned: CreateTask returns what it returned (neaktor_model.go:1804).
CreateTaskReturn(t) ==
    LET sub == call[t]
        c == sub.caller[1]
    IN
    /\ pc[t] = "done" /\ Nested(t) /\ c.op = "CreateTask"
    /\ call' = [call EXCEPT ![t] =
                    [c EXCEPT !.subs = Append(@, [sub EXCEPT !.caller = <<>>]),
                              !.reqs = @ \o sub.reqs, !.takes = @ + sub.takes,
                              !.ret = sub.ret, !.err = sub.err]]
    /\ UNCHANGED <<now, takes, token, modelCacheLock, modelCacheMap, nextInst, heap, pc>>

NextCreate ==
    \/ \E m \in Models, assignee \in CreateAssignees, fields \in CreateFields :
            CreateTaskCall("t1", m, assignee, fields)
    \/ CreateTaskTake("t1")
    \/ \E resp \in CreateTaskResponses : CreateTaskFetch("t1", resp)
    \/ GetTaskByIdTake("t1")
    \/ \E resp \in TaskByIdResponses : GetTaskByIdFetch("t1", resp)
    \/ CreateTaskReturn("t1")

SpecCreate == InitLookup /\ [][NextCreate]_vars

\* t's CreateTask call has returned; and the creation did not go through: the POST
\* got no response, or a body that does not decode, or a body with a wire code.
Created(t) == call[t].op = "CreateTask" /\ Returned(t)
PostFailed(resp) == resp.fail \/ ~resp.decodable \/ Len(resp.code) > 0

----------------------------------------------------------------------------
\* The operations that issue one request, and a call whose request was answered by
\* a failure: no response, a status of 500 or more, or a body with a wire code.
SingleRequestOps ==
    { "GetModelByTitle", "GetTaskById", "UpdateFields", "UpdateStatus", "AddComment", "RefreshToken",
      "GetCustomFieldOptionId", "GetCustomFieldValue", "GetAssignee" }
ReceivedFailure(t) == Answered(t) /\ (call[t].rx.fail \/ call[t].rx.over500 \/ call[t].rx.coded)

\* C28: no call of a single-request operation has more than one request, and one
\* that received a transport error, a status of 500 or more or a wire code returns
\* an error after that one request.
C28_FailedCallIsNotRetried ==
    \A t \in Threads :
        call[t].op \in SingleRequestOps
        => /\ Requests(t) <= 1
           /\ ReceivedFailure(t) => Requests(t) = 1 /\ call[t].err # NilErr

----------------------------------------------------------------------------
\* The Models that the cache or a caller holds.
ModelsHeld == Models \cup {call[t].recv : t \in Threads}

\* C29: no step of an operation changes the id, the statuses or the fields of a
\* Model that exists: the Model of an identity is the same after the step as before
\* it, and what a step changes of a Model is one of its two caches (with their locks).
C29_ModelIdentityIsFixed ==
    [][ /\ \A m \in ModelsHeld : \A n \in ModelsHeld' : n.inst = m.inst => n = m
        /\ \A inst \in DOMAIN heap' :
                \E n \in ModelsHeld' : n.inst = inst /\ DOMAIN heap'[inst] = DOMAIN FreshCaches ]_vars

C29_Witness ==
    \E t \in Threads :
        /\ call[t].op = "GetAssignee" /\ Returned(t) /\ call[t].src = "refresh"
        /\ call[t].recv = ModelA
        /\ CachesOf(ModelA).modelAssigneeCacheMap # EmptyMap
        /\ "A" \in DOMAIN modelCacheMap /\ modelCacheMap["A"].model = ModelA

----------------------------------------------------------------------------
\* t's Task.GetField call has returned; and the element of the service's response
\* that a listed task was built from (the first task of a page, whose id is one more
\* than a multiple of the page size, is the one that carries fields).
GotField(t) == call[t].op = "Task.GetField" /\ Returned(t)
ElementOf(task) ==
    TaskData(task.id, RawStatus(task.status), IF (task.id - 1) % PageLimit = 0 THEN GoodDate ELSE "")

\* C30: Task.GetField(modelField) returns, without error, the first field of the task
\* whose ModelField.Id is modelField.Id, and fails with ErrTaskFieldNotFound when the
\* task has none; on a task that a listing of the Model built, it succeeds for every
\* field of the Model whose id is the id of a field of that task in the response.
C30_TaskFieldByModelFieldId ==
    \A t \in Threads :
        GotField(t)
        => LET task == call[t].recv
               modelField == call[t].arg.key
               hits == {i \in 1..Len(task.fields) : task.fields[i].ModelField.Id = modelField.Id}
               element == ElementOf(task)
           IN /\ IF hits = {}
                 THEN call[t].err = Bare("ErrTaskFieldNotFound")
                 ELSE /\ call[t].err = NilErr
                      /\ \E i \in hits : call[t].ret = task.fields[i] /\ \A j \in hits : i <= j
              /\ task = BuildTask(ModelA, element)
              /\ ( /\ modelField \in {ModelA.fields[id] : id \in DOMAIN ModelA.fields}
                   /\ \E j \in 1..Len(element.Fields) : element.Fields[j].Id = modelField.Id )
                 => call[t].err = NilErr /\ call[t].ret.ModelField = modelField

C30_Witness ==
    \E t \in Threads :
        /\ GotField(t) /\ call[t].arg.key = FieldEmail /\ call[t].err = NilErr
        /\ call[t].ret = [ModelField |-> FieldEmail, Value |-> <<"a@b.c">>, State |-> "ACTIVE"]
        /\ Len(call[t].recv.fields) = 4
        /\ call[t].recv.fields[4].ModelField = FieldEmail

----------------------------------------------------------------------------
\* The Must variants (part_001:460-468, part_002:104-112, 130-138, 212-217,
\* 276-281, 331-336) and Task.GetCustomField (part_002:114-128). A Must variant
\* calls its error-returning form, which runs as a call of its own, and ends when
\* the form has returned.

\* The form a Must variant calls.
Form(must) ==
    CASE must = "MustGetModelByTitle" -> "GetModelByTitle"
      [] must = "MustGetField" -> "Task.GetField"
      [] must = "MustGetCustomField" -> "GetCustomField"
      [] must = "MustUpdateFields" -> "UpdateFields"
      [] must = "MustUpdateStatus" -> "UpdateStatus"
      [] must = "MustAddComment" -> "AddComment"
      [] OTHER -> "none"

\* The Must variant is entered and calls its form, c, whose first step is first.
MustEnter(t, must, c, first) ==
    /\ Enter(t, [c EXCEPT !.caller = <<NewCall(must, c.recv, c.arg.key, c.arg.want, c.ret)>>], first)
    /\ UNCHANGED <<now, takes, token, modelCacheLock, modelCacheMap, nextInst, heap>>

\* A wrapper that returns whatever its form returned, the error dropped.
MustResultSwallowed(sub) == [pc |-> "done", ret |-> sub.ret, err |-> NilErr]

\* if err != nil { panic(err) }; return the form's value (part_002:104-112).
MustResult(sub) ==
    IF sub.err # NilErr THEN [pc |-> "panic", ret |-> sub.ret, err |-> sub.err]
    ELSE [pc |-> "done", ret |-> sub.ret, err |-> NilErr]

\* The form has returned to the Must variant, which returns or panics.
MustReturn(t) ==
    LET sub == call[t]
        c == sub.caller[1]
        result == MustResult(sub)
    IN
    /\ pc[t] = "done" /\ Nested(t) /\ Form(c.op) = sub.op
    /\ call' = [call EXCEPT ![t] =
                    [c EXCEPT !.subs = Append(@, [sub EXCEPT !.caller = <<>>]),
                              !.reqs = @ \o sub.reqs, !.takes = @ + sub.takes,
                              !.ret = result.ret, !.err = result.err]]
    /\ pc' = [pc EXCEPT ![t] = result.pc]
    /\ UNCHANGED <<now, takes, token, modelCacheLock, modelCacheMap, nextInst, heap>>

MustGetModelByTitleCall(t, title) ==
    MustEnter(t, "MustGetModelByTitle", NewCall("GetModelByTitle", NilModel, title, "", NilModel), "gm_lock")

\* Task.GetField is a loop over the task's fields: it has returned when entered.
MustGetFieldCall(t, task, modelField) ==
    LET found == TaskFieldById(task.fields, modelField) IN
    MustEnter(t, "MustGetField",
              [NewCall("Task.GetField", task, modelField, "", IF Len(found) > 0 THEN found[1] ELSE ZeroTaskField)
                  EXCEPT !.err = IF Len(found) > 0 THEN NilErr ELSE Bare("ErrTaskFieldNotFound")],
              "done")

MustGetCustomFieldCall(t, task, modelField) ==
    MustEnter(t, "MustGetCustomField", NewCall("GetCustomField", task, modelField, "", ZeroTaskField), "gcf_loop")

MustUpdateFieldsCall(t, task, fields) ==
    MustEnter(t, "MustUpdateFields", NewCall("UpdateFields", task, task.id, fields, <<>>), "uf_take")

MustUpdateStatusCall(t, task, status) ==
    MustEnter(t, "MustUpdateStatus", NewCall("UpdateStatus", task, task.id, status, <<>>), "us_take")

MustAddCommentCall(t, task, message) ==
    MustEnter(t, "MustAddComment", NewCall("AddComment", task, task.id, message, <<>>), "ac_fetch")

\* Task.GetCustomField, the loop (part_002:115-117): the field of the task with the
\* id, whose value is asserted to be a string and looked up as an option id in the
\* task's Model; ErrTaskFieldNotFound without such a field (part_002:127).
GetCustomFieldLoop(t, m) ==
    LET c == call[t]
        found == TaskFieldById(c.recv.fields, c.arg.key)
    IN
    /\ pc[t] = "gcf_loop"
    /\ m.inst = c.recv.model
    /\ IF Len(found) = 0
       THEN /\ call' = [call EXCEPT ![t].err = Bare("ErrTaskFieldNotFound")]
            /\ pc' = [pc EXCEPT ![t] = "done"]
       ELSE IF ~IsString(found[1].Value)
       THEN /\ pc' = [pc EXCEPT ![t] = "panic"]
            /\ UNCHANGED call
       ELSE /\ call' = [call EXCEPT ![t] =
                            [NewCall("GetCustomFieldValue", m, c.arg.key.Id, found[1].Value, "") EXCEPT
                                !.prior = c.prior, !.caller = <<c>>]]
            /\ pc' = [pc EXCEPT ![t] = "cfv_lock"]
    /\ UNCHANGED <<now, takes, token, modelCacheLock, modelCacheMap, nextInst, heap>>

\* GetCustomFieldValue has returned: the field as it is with the error, or the field
\* with the option's value for its value (part_002:118-124).
GetCustomFieldReturn(t) ==
    LET sub == call[t]
        c == [sub.caller[1] EXCEPT !.subs = Append(@, [sub EXCEPT !.caller = <<>>]),
                                   !.reqs = @ \o sub.reqs, !.takes = @ + sub.takes]
        field == TaskFieldById(c.recv.fields, c.arg.key)[1]
    IN
    /\ pc[t] = "done" /\ Nested(t) /\ sub.caller[1].op = "GetCustomField"
    /\ call' = [call EXCEPT ![t] =
                    IF sub.err # NilErr THEN [c EXCEPT !.ret = field, !.err = sub.err]
                    ELSE [c EXCEPT !.ret = [field EXCEPT !.Value = sub.ret]]]
    /\ UNCHANGED <<now, takes, token, modelCacheLock, modelCacheMap, nextInst, heap, pc>>

\* The tasks the getters are called on: the custom field holds an option id that
\* the service lists, one that it does not, or a number.
TaskWith(value) ==
    NewTask(ModelA, StatusNew, 7, "T-7", GoodDate, "", "", <<TaskField(FieldEmail, value)>>)
MustTasks == {TaskWith(v) : v \in AskedOptionIds \cup {NumberValue}}

NextMust ==
    \/ \E title \in Titles : MustGetModelByTitleCall("t1", title)
    \/ \E at \in Later : GetModelByTitleCheck("t1", at)
    \/ GetModelByTitleTake("t1")
    \/ \E resp \in TaskModelResponses : GetModelByTitleFetch("t1", resp)
    \/ \E task \in MustTasks, modelField \in AskedModelFields : MustGetFieldCall("t1", task, modelField)
    \/ \E task \in MustTasks, modelField \in AskedModelFields : MustGetCustomFieldCall("t1", task, modelField)
    \/ \E m \in Models : GetCustomFieldLoop("t1", m)
    \/ \E at \in Later : GetCustomFieldValueCheck("t1", at)
    \/ \E resp \in CustomFieldResponses : GetCustomFieldValueFetch("t1", resp)
    \/ GetCustomFieldReturn("t1")
    \/ \E fields \in TaskFields : MustUpdateFieldsCall("t1", TheTask, fields)
    \/ UpdateFieldsTake("t1")
    \/ \E resp \in MutationResponses : UpdateFieldsFetch("t1", resp)
    \/ \E status \in AskedStatuses : MustUpdateStatusCall("t1", TheTask, status)
    \/ UpdateStatusTake("t1")
    \/ \E resp \in MutationResponses : UpdateStatusFetch("t1", resp)
    \/ \E message \in Comments : MustAddCommentCall("t1", TheTask, message)
    \/ \E resp \in MutationResponses : AddCommentFetch("t1", resp)
    \/ MustReturn("t1")

SpecMust == InitLookup /\ [][NextMust]_vars

MustOps ==
    {"MustGetModelByTitle", "MustGetField", "MustGetCustomField", "MustUpdateFields",
     "MustUpdateStatus", "MustAddComment"}

\* t's Must call has ended: it returned or it panicked with an error.
MustEnded(t) == call[t].op \in MustOps /\ pc[t] \in {"done", "panic"}

\* C31: a Must variant ends in the step that follows the return of its form, and
\* that step changes nothing of the client, its caches or the Models: the requests
\* and the Take()s of the Must call are those of the form. It returns the form's
\* value with a nil error when the form's error is nil, and panics with the form's
\* error when that error is not nil.
C31_MustIsItsFormThenPanicOnError ==
    [][\A t \in Threads :
        (call'[t].op \in MustOps /\ call[t].op \notin MustOps) =>
            LET f == call[t]
                must == call'[t]
            IN
            /\ pc[t] = "done" /\ f.op = Form(must.op)
            /\ UNCHANGED <<now, takes, token, modelCacheLock, modelCacheMap, nextInst, heap>>
            /\ must.reqs = f.reqs /\ must.takes = f.takes
            /\ must.subs = <<[f EXCEPT !.caller = <<>>]>>
            /\ IF f.err = NilErr
               THEN pc'[t] = "done" /\ must.ret = f.ret /\ must.err = NilErr
               ELSE pc'[t] = "panic" /\ must.err = f.err]_vars

\* A MustGetModelByTitle has panicked with the ErrModelNotFound of its form, which
\* had made one request.
C31_Witness ==
    \E t \in Threads :
        /\ MustEnded(t) /\ pc[t] = "panic"
        /\ call[t].op = "MustGetModelByTitle"
        /\ call[t].err = Bare("ErrModelNotFound")
        /\ Len(call[t].reqs) = 1

----------------------------------------------------------------------------
\* C32: the Task that GetTaskById returns has for status the status of the Model
\* whose name is the raw status of the response's task, ignoring case, and the zero
\* ModelStatus when no name matches: the rule of the listings.
C32_StatusByFoldedNameEverywhere ==
    \A t \in Threads :
        (Got(t, {"GetTaskById"}) /\ call[t].err = NilErr /\ Len(call[t].ret) = 1)
        => call[t].ret[1].status = ResolveStatus(call[t].recv, call[t].resp[1].data[1].Status)

----------------------------------------------------------------------------
\* The library's mutexes: n.modelCacheLock, and the two of every Model.
Mutexes ==
    {<<"modelCacheLock", 0>>}
    \cup {<<"modelCustomFieldCacheLock", inst>> : inst \in DOMAIN heap}
    \cup {<<"modelAssigneeCacheLock", inst>> : inst \in DOMAIN heap}

\* The thread that holds a mutex, if any.
Holder(mutex) ==
    IF mutex[1] = "modelCacheLock" THEN modelCacheLock
    ELSE IF mutex[1] = "modelCustomFieldCacheLock" THEN heap[mutex[2]].modelCustomFieldCacheLock
    ELSE heap[mutex[2]].modelAssigneeCacheLock

HeldBy(t) == {mutex \in Mutexes : Holder(mutex) = t}

\* The mutex that guards the cache a lookup works on.
MutexOf(t) ==
    IF call[t].op = "GetModelByTitle" THEN <<"modelCacheLock", 0>>
    ELSE IF call[t].op = "GetAssignee" THEN <<"modelAssigneeCacheLock", call[t].recv.inst>>
    ELSE <<"modelCustomFieldCacheLock", call[t].recv.inst>>

\* t's lookup is at its Lock(), and the mutex is held by another thread.
AtLock(t) == pc[t] \in {"gm_lock", "cfo_lock", "cfv_lock", "ga_lock"}
Blocked(t) ==
    /\ AtLock(t)
    /\ MutexOf(t) \in Mutexes
    /\ Holder(MutexOf(t)) # NoThread

\* C33: a lookup that is past its first read of the cache and has not returned
\* holds the mutex of its cache, and that one alone; a thread that has not entered,
\* is at its Lock(), or has returned, with or without an error, holds none. No
\* thread holds two mutexes; and a thread that waits at a Lock() waits for a thread
\* that is refreshing, which needs no mutex to go on: there is no deadlock.
C33_OneMutexHeldFromCheckToReturn ==
    \A t \in Threads :
        /\ Refreshing(t) => MutexOf(t) \in Mutexes /\ HeldBy(t) = {MutexOf(t)}
        /\ ~Refreshing(t) => HeldBy(t) = {}
        /\ Cardinality(HeldBy(t)) <= 1
        /\ Blocked(t) => /\ Refreshing(Holder(MutexOf(t)))
                         /\ ~Blocked(Holder(MutexOf(t)))

\* One caller has returned an error from a failed refresh and holds nothing; the
\* other, which was at the Lock() of the same mutex meanwhile, now holds it.
C33_Witness ==
    \E t, u \in Threads :
        /\ t # u /\ Concurrent(t, u)
        /\ IsLookup(t) /\ AnswerFailed(t) /\ call[t].err # NilErr /\ HeldBy(t) = {}
        /\ IsLookup(u) /\ Refreshing(u) /\ MutexOf(u) = MutexOf(t) /\ HeldBy(u) = {MutexOf(u)}
        /\ call[u].checkAt >= call[t].fetchAt

----------------------------------------------------------------------------
\* t's listing is in its page loop: at the Take() or at the request of a page.
InPageLoop(t) == pc[t] \in {"ts_take", "ts_fetch", "tsf_take", "tsf_fetch", "tf_take", "tf_fetch"}

\* The loop goes on after a page of the total: page+1 < ceil(total/50) in
\* GetTasksByStatus; neither total < 50 nor page >= total/50 in the filtered ones.
GoesOn(op, total, page) ==
    IF op = "GetTasksByStatus" THEN page + 1 < Ceil(total, PageLimit)
    ELSE total >= 50 /\ page < total \div 50

\* C34: the k-th request of a listing call asks for page k-1, so the pages are asked
\* for in the order 0, 1, 2, ... and none twice; the call is at page k only when k
\* requests have been made, and it is at a page after the first only when the
\* response of the page before was decoded without a wire code or a malformed task
\* and its total told the loop to go on.
C34_PagesInOrderEachAfterTheLast ==
    \A t \in Threads :
        call[t].op \in ListingOps
        => /\ \A k \in 1..Requests(t) : call[t].reqs[k].path.page = k - 1
           /\ InPageLoop(t) => Requests(t) = call[t].page /\ call[t].takes \in {call[t].page, call[t].page + 1}
           /\ InPageLoop(t) /\ call[t].page > 0
                => /\ ~PageFailed(t) /\ call[t].rx.decodable
                   /\ Len(call[t].ret) = call[t].page * PageLimit
                   /\ GoesOn(call[t].op, call[t].total, call[t].page - 1)
                   /\ call[t].op = "GetTasksByStatus" => call[t].maxPages = Ceil(call[t].total, PageLimit)

\* A listing of 101 tasks is about to ask for page 2, pages 0 and 1 asked and answered.
C34_Witness ==
    \E t \in Threads :
        /\ call[t].op \in ListingOps /\ InPageLoop(t)
        /\ call[t].total = 101 /\ call[t].page = 2 /\ Requests(t) = 2
        /\ call[t].reqs[1].path.page = 0 /\ call[t].reqs[2].path.page = 1

----------------------------------------------------------------------------
\* The client and ModelA of InitLookup; one thread looks up an assignee on the Model
\* it holds while the other asks the client for a Model, at any time.

\* GetModelByTitle is entered (part_001:340), whatever the other thread does.
GetModelByTitleCallAnytime(t, title) ==
    /\ pc[t] = "idle"
    /\ call' = [call EXCEPT ![t] = [NewCall("GetModelByTitle", NilModel, title, "", NilModel) EXCEPT
                                        !.prior = {u \in Threads : pc[u] = "done"}]]
    /\ pc' = [pc EXCEPT ![t] = "gm_lock"]
    /\ UNCHANGED <<now, takes, token, modelCacheLock, modelCacheMap, nextInst, heap>>

NextRefresh ==
    \/ \E m \in Models, status \in AskedStatuses, name \in AskedNames : GetAssigneeCall("t1", m, status, name)
    \/ \E at \in Later : GetAssigneeCheck("t1", at)
    \/ \E resp \in RoutingResponses : GetAssigneeFetch("t1", resp)
    \/ \E title \in Titles : GetModelByTitleCallAnytime("t2", title)
    \/ \E at \in Later : GetModelByTitleCheck("t2", at)
    \/ GetModelByTitleTake("t2")
    \/ \E resp \in TaskModelResponses : GetModelByTitleFetch("t2", resp)

SpecRefresh == InitLookup /\ [][NextRefresh]_vars

\* C35: the step in which a GetModelByTitle gets a listing with success leaves,
\* under every name of the listing, the requested one or not, and whether the name
\* had a live entry or not, an entry stamped with the time of the refresh whose
\* Model was constructed in this step: its identity is new, no Model held by the
\* cache or a caller before is it, and its custom-field and assignee caches are
\* empty. The caches of the Models held before stay with those Models.
C35_RefreshReplacesEveryListedEntry ==
    [][\A t \in Threads :
        (call[t].op = "GetModelByTitle" /\ pc[t] = "gm_fetch" /\ pc'[t] = "done" /\ AnswerOk(t)')
        => /\ \A title \in call'[t].rx.keys :
                /\ title \in DOMAIN modelCacheMap'
                /\ modelCacheMap'[title].lastUpdatedAt = call'[t].fetchAt
                /\ modelCacheMap'[title].model.inst > nextInst
                /\ modelCacheMap'[title].model \notin ModelsHeld
                /\ \A m \in ModelsHeld : m.inst # modelCacheMap'[title].model.inst
                /\ modelCacheMap'[title].model.inst \notin DOMAIN heap'
           /\ heap' = heap]_vars

\* A caller filled the assignee cache of ModelA, the Model cached under "A"; then,
\* that entry still live, a GetModelByTitle("B") refreshed: "A" now has another
\* Model, with empty caches, and ModelA keeps its own.
C35_Witness ==
    \E t, u \in Threads :
        /\ call[t].op = "GetAssignee" /\ Returned(t) /\ call[t].src = "refresh" /\ call[t].recv = ModelA
        /\ CachesOf(ModelA).modelAssigneeCacheMap # EmptyMap
        /\ call[u].op = "GetModelByTitle" /\ call[u].arg.key = "B" /\ AnswerOk(u)
        /\ "A" \in call[u].rx.keys
        /\ LiveAt(call[u].fetchAt, 0)
        /\ modelCacheMap["A"].model # ModelA
        /\ modelCacheMap["A"].lastUpdatedAt = call[u].fetchAt
        /\ CachesOf(modelCacheMap["A"].model) = FreshCaches

----------------------------------------------------------------------------
\* t's GetModelByTitle is between its first read of the cache and its return: at
\* the Take() or at the request.
RefreshingModels(t) == call[t].op = "GetModelByTitle" /\ pc[t] \in {"gm_take", "gm_fetch"}

\* C36: a GetModelByTitle that refreshes holds n.modelCacheLock at its Take() and
\* at its request: every step that takes a unit from the limiter or issues the
\* request for it is made with the mutex held, and the mutex is free again only
\* when the call returns. Meanwhile another GetModelByTitle, for whatever title,
\* with a live entry or not, stays at its Lock(): it neither reads the cache nor
\* returns before the refreshing call has returned.
C36_RefreshHoldsTheMutexOverTakeAndRequest ==
    /\ [](\A t \in Threads : RefreshingModels(t) => modelCacheLock = t)
    /\ [][\A t \in Threads :
            RefreshingModels(t)
            => /\ (call'[t].takes > call[t].takes \/ Len(call'[t].reqs) > Len(call[t].reqs))
                    => modelCacheLock = t
               /\ modelCacheLock' # t => pc'[t] = "done"
               /\ \A u \in Threads \ {t} :
                    call[u].op = "GetModelByTitle" /\ pc[u] = "gm_lock"
                    => pc'[u] = "gm_lock" /\ call'[u] = call[u]]_vars

\* A GetModelByTitle("B") has taken its unit and is at its request; the other
\* thread's GetModelByTitle("A"), whose entry is live, is at its Lock().
C36_Witness ==
    \E t, u \in Threads :
        /\ t # u
        /\ RefreshingModels(t) /\ pc[t] = "gm_fetch" /\ call[t].takes = 1 /\ call[t].arg.key = "B"
        /\ call[u].op = "GetModelByTitle" /\ pc[u] = "gm_lock" /\ call[u].arg.key = "A"
        /\ "A" \in DOMAIN modelCacheMap /\ LiveAt(now, modelCacheMap["A"].lastUpdatedAt)
        /\ \A at \in Later : ~ENABLED GetModelByTitleCheck(u, at)

----------------------------------------------------------------------------
\* The client of InitLookup; one thread calls RefreshToken while the other calls
\* GetModelByTitle, at any time.

TokenGrants == TokenResponses \cup {Decoded(200, <<>>, [AccessToken |-> "abcdef"])}

NextToken ==
    \/ RefreshTokenCall("t1", "client", "secret", "r1e2f3")
    \/ \E resp \in TokenGrants : RefreshTokenFetch("t1", resp)
    \/ RefreshTokenStore("t1")
    \/ \E title \in Titles : GetModelByTitleCallAnytime("t2", title)
    \/ \E at \in Later : GetModelByTitleCheck("t2", at)
    \/ GetModelByTitleTake("t2")
    \/ \E resp \in TaskModelResponses : GetModelByTitleFetch("t2", resp)

SpecToken == InitLookup /\ [][NextToken]_vars

\* The tokens the client has held or is storing: the one it holds, the one a
\* RefreshToken found, and the one a RefreshToken was granted.
TokensOfClient ==
    {token}
    \cup UNION {{call[t].had[1]} \cup {call[t].left[i] : i \in 1..Len(call[t].left)} :
                    t \in {u \in Threads : call[u].op = "RefreshToken" /\ Len(call[u].had) = 1}}

\* C37: the request of an operation that runs while another thread calls
\* RefreshToken carries the complete token the client held before or the complete
\* token the RefreshToken stores; and a request of a call entered after a
\* RefreshToken returned with success carries the token it stored.
C37_RequestCarriesOldOrNewToken ==
    \A t, u \in Threads :
        call[t].op = "RefreshToken" /\ call[u].op = "GetModelByTitle" /\ Requests(u) = 1
        => /\ call[u].reqs[1].auth \in TokensOfClient
           /\ After(u, t) /\ call[t].err = NilErr => call[u].reqs[1].auth = token

\* The second part alone: after a RefreshToken returned with success, a call entered
\* then sends the token it stored.
RequestAfterRefreshCarriesNewToken ==
    \A t, u \in Threads :
        call[t].op = "RefreshToken" /\ call[u].op = "GetModelByTitle" /\ Requests(u) = 1
            /\ After(u, t) /\ call[t].err = NilErr
        => call[u].reqs[1].auth = token /\ token = call[t].left[1]

----------------------------------------------------------------------------
\* The options of an element of GET /customfields/{id}, as the cache keeps them.
OptionsOf(elem) ==
    [j \in 1..Len(elem.AvailableValues) |->
        CustomFieldOption(elem.AvailableValues[j].Id, elem.AvailableValues[j].Value)]

\* t's custom-field lookup handles the response resp in this step.
CustomFieldFetch(t, resp) ==
    \/ GetCustomFieldOptionIdFetch(t, resp)
    \/ GetCustomFieldValueFetch(t, resp)

\* What t's lookup asks for is among the options: a value for GetCustomFieldOptionId,
\* an option id for GetCustomFieldValue.
Resolves(t, options) ==
    IF call[t].op = "GetCustomFieldOptionId"
    THEN \E j \in 1..Len(options) : options[j].value = call[t].arg.want
    ELSE \E j \in 1..Len(options) : options[j].id = call[t].arg.want

\* C38: the step in which a custom-field lookup handles a decoded response of one
\* element or more leaves, under the field id asked for and under no other key, an
\* entry stamped with the time of the refresh that holds exactly the options of
\* the last element; and the lookup returns without an error exactly when what it
\* asks for is among those: an option that only an earlier element lists is not
\* found.
C38_LastElementIsTheEntry ==
    [][\A t \in Threads :
        (pc[t] \in {"cfo_fetch", "cfv_fetch"} /\ pc'[t] = "done") =>
        \A resp \in CustomFieldResponses :
        (/\ ~resp.fail /\ resp.decodable /\ Len(resp.data) > 0
         /\ call'[t].rx = Digest(resp, ArrayCoded(resp), {call[t].arg.key})
         /\ CustomFieldFetch(t, resp))
        => LET key == call[t].arg.key
               last == resp.data[Len(resp.data)]
               before == CachesOf(call[t].recv).modelCustomFieldCacheMap
               after == heap'[call[t].recv.inst].modelCustomFieldCacheMap
           IN /\ call[t].recv.inst \in DOMAIN heap'
              /\ DOMAIN after = DOMAIN before \cup {key}
              /\ \A k \in DOMAIN before \ {key} : after[k] = before[k]
              /\ after[key] = ModelCustomFieldCache(now, OptionsOf(last))
              /\ call'[t].err = NilErr <=> Resolves(t, OptionsOf(last))
              /\ call'[t].err # NilErr
                    => call'[t].err \in {Bare("ErrModelCustomFieldOptionNotFound"),
                                         Bare("ErrModelCustomFieldValueNotFound")}]_vars

\* A refresh whose response had an element with a wire code and no options, and
\* then one with options: the entry holds the options of the second.
C38_Witness ==
    \E t \in Threads :
        /\ call[t].op = "GetCustomFieldOptionId" /\ Returned(t) /\ call[t].src = "refresh"
        /\ call[t].rx.coded
        /\ Len(call[t].left) = 1
        /\ Len(call[t].left[1].customFieldOptions) = 2
        /\ CacheOf(t)[call[t].arg.key] = call[t].left[1]

====
